---- MODULE Spec2Model ----
(***************************************************************************)
(* A model of the core of the plugin-solana package:                       *)
(*   - the resilient fetch client (clients.ts, http.request),              *)
(*   - the cached provider adapters (clients.ts, *Client.request),         *)
(*   - the trust score engine (providers/trustScoreProvider.ts),           *)
(*   - the simulated selling orchestrator                                  *)
(*     (providers/simulationSellingService.ts).                            *)
(* The components do not share state, so each has its own next-state       *)
(* relation and specification; the other components' variables stay at     *)
(* their initial values.  Every await of the source is a step boundary.    *)
(***************************************************************************)
EXTENDS Integers, Sequences, FiniteSets, TLC

VARIABLES
    \* ---- http.request (clients.ts:97-140)
    hPc,        \* "idle" | "fetch" | "sleep" | "done": position in http.request
    hOpts,      \* retryOptions after the merge with DEFAULT_RETRY_OPTIONS
    hAttempt,   \* the local `attempt`
    hFetches,   \* number of fetch() calls made by this request
    hSleeps,    \* the delays slept, in order
    hErr,       \* the error caught last (name, status of its response, attempt)
    hRes,       \* "none" | "ok" | "threw": how the request ended
    \* ---- cached provider adapters (clients.ts: *Client.request)
    cPc,        \* "idle" | "get" | "fetch" | "set" | "done"
    cReq,       \* the call in progress: client, chain, path, params, expires
    cache,      \* the cache manager's entries: records key, value, expires
    cNow,       \* Date.now(), in ms
    cNetCalls,  \* network requests issued by the adapters so far
    cCalls,     \* adapter calls made so far
    cFetched,   \* the response of the network request of this call (0: none)
    cSetFailed, \* the cache write of this call failed
    cOut,       \* how the call ended: kind "none" | "value" | "threw"
    \* ---- recommender metrics of one recommender (trustScoreProvider.ts)
    mMetrics,   \* the recommender_metrics rows of the recommender (0 or 1)
    mNow,       \* the clock, in ticks (TicksPerDay ticks a day)
    mTask,      \* per call of updateRecommenderMetrics: pc, arguments, locals
    mCalls,     \* calls of updateRecommenderMetrics made so far
    mWrites,    \* number of records written by updateRecommenderMetrics
    mTicks,     \* number of times the clock has advanced
    \* ---- selling orchestrator and trades (simulationSellingService.ts,
    \*      trustScoreProvider.ts) with their collaborators
    sonarOn,          \* this.sonar is set (SONAR_URL and SONAR_TOKEN given)
    backendOn,        \* this.backend is set (BACKEND_URL and BACKEND_TOKEN given)
    runningProcesses, \* SimulationSellingService.runningProcesses
    dbRecommenders,   \* recommender rows stored, per id
    dbPerf,           \* tokens with a TokenPerformance row
    dbBalance,        \* the balance of each token's TokenPerformance row
    dbTrades,         \* TradePerformance rows, in insertion order
    dbTokenRecs,      \* TokenRecommendation rows per token: recommender ids
    dbTx,             \* Transaction rows per token and type: how many
    sonarStarts,      \* startProcess requests sent to the process backend, per token
    sonarStops,       \* stopProcess requests sent to the process backend, per token
    beRecCalls,       \* getOrCreateRecommender requests sent to the metrics backend
    beTradeCalls,     \* createTradePerformance requests sent to the metrics backend
    task,             \* per async call in flight: operation, await reached, locals
    sCalls,           \* calls and deliveries made so far
    sBuys,            \* calls of createTradePerformance made so far
    qDelivered,       \* messages the queue has delivered
    qAcks,            \* acknowledgements sent, per delivered message
    qRuns,            \* processMessage invocations, per delivered message
    \* ---- HeliusClient.fetchHolderList (clients.ts)
    hlPc,       \* "idle" | "cache_get" | "page" | "cache_set" | "done"
    hlExpires,  \* options.expires was given
    hlPage,     \* page
    hlMap,      \* allHoldersMap: its entries in insertion order
    hlSeen,     \* the token accounts of the pages this call has fetched
    hlCache,    \* the cache entry helius/token-holders/<address>, if any
    hlOut,      \* what the call returned or threw
    hlCalls,    \* calls made so far
    hlCursor,   \* cursor
    hlReqs,     \* params of the getTokenAccounts requests of this call
    hlCursors,  \* data.result.cursor of the pages merged in this call
    \* ---- the risk flags of TrustScoreManager (trustScoreProvider.ts)
    fData,      \* processedData.tradeData
    fOut,       \* the flags computed from it so far
    \* ---- the score functions of TrustScoreManager (trustScoreProvider.ts)
    rsToken,    \* tokenPerformance
    rsOut,      \* the risk score computed from it, once computed
    \* ---- DexscreenerClient.searchForHighestLiquidityPair (clients.ts)
    lpPc,       \* "idle" | "search" | "select" | "done"
    lpPairs,    \* data.pairs
    lpOut,      \* what the call returned
    \* ---- TrustScoreManager.getRecommendations (trustScoreProvider.ts)
    grPc,       \* "idle" | "range" | "token" | "sort" | "done"
    grRecs,     \* the rows getRecommendationsByDateRange returns
    grPerf,     \* the token performance row of each token, if any
    grMetrics,  \* the metrics row of each recommender, if any
    grResults,  \* results
    \* ---- BirdeyeClient and CodexClient fetchPortfolioValue (clients.ts)
    pfPc,       \* "idle" | "list" | "price" | "done"
    pfClient,   \* "birdeye" | "codex"
    pfData,     \* the token list or the balances the first request returned
    pfPrice,    \* the price of SOL the second request returned
    pfOut,      \* what the call returned or threw
    \* ---- the formatted reports of WalletProvider and TokenProvider (providers/wallet.ts, providers/token.ts)
    rpPc,       \* "idle" | "construct" | "adapter" | "fetch" | "done"
    rpOp,       \* the operation that was called
    rpPending,  \* the fetches not settled yet
    rpFailure,  \* what failed in this call, if anything
    rpOut,      \* what the call returned
    rpLog       \* what the earlier calls returned

httpVars == <<hPc, hOpts, hAttempt, hFetches, hSleeps, hErr, hRes>>
cacheVars == <<cPc, cReq, cache, cNow, cNetCalls, cCalls, cFetched,
               cSetFailed, cOut>>

metricsVars == <<mMetrics, mNow, mTask, mCalls, mWrites, mTicks>>

cfgVars == <<sonarOn, backendOn>>
dbVars == <<dbRecommenders, dbPerf, dbBalance, dbTrades, dbTokenRecs, dbTx>>
extVars == <<sonarStarts, sonarStops, beRecCalls, beTradeCalls>>
queueVars == <<qDelivered, qAcks, qRuns>>
callVars == <<sCalls, sBuys>>
sellVars == <<cfgVars, runningProcesses, dbVars, extVars, task, callVars, queueVars>>

holderVars == <<hlPc, hlExpires, hlPage, hlMap, hlSeen, hlCache, hlOut, hlCalls,
                hlCursor, hlReqs, hlCursors>>
flagVars == <<fData, fOut>>
scoreVars == <<rsToken, rsOut>>
pairVars == <<lpPc, lpPairs, lpOut>>

recsVars == <<grPc, grRecs, grPerf, grMetrics, grResults>>
portVars == <<pfPc, pfClient, pfData, pfPrice, pfOut>>
reportVars == <<rpPc, rpOp, rpPending, rpFailure, rpOut, rpLog>>
vars == <<httpVars, cacheVars, metricsVars, sellVars, holderVars, flagVars,
          scoreVars, pairVars, recsVars, portVars, reportVars>>

Min(a, b) == IF a <= b THEN a ELSE b
Max(a, b) == IF a >= b THEN a ELSE b

(***************************************************************************)
(*                      RESILIENT FETCH CLIENT                             *)
(***************************************************************************)

\* Largest maxRetries a caller passes in the model.
MaxRetriesChoice == 4

DEFAULT_maxRetries == 3
DEFAULT_initialDelay == 1000
DEFAULT_maxDelay == 30000
DEFAULT_backoffFactor == 2

DEFAULT_RETRY_OPTIONS ==
    [maxRetries |-> DEFAULT_maxRetries,
     initialDelay |-> DEFAULT_initialDelay,
     maxDelay |-> DEFAULT_maxDelay,
     backoffFactor |-> DEFAULT_backoffFactor,
     retryableStatuses |-> {408, 429, 500, 502, 503, 504}]

RetryFields == DOMAIN DEFAULT_RETRY_OPTIONS

\* The retryOptions a caller may pass: any subset of the fields, each set to
\* a value other than the default (maxRetries over its whole modelled range).
RetryOverrides ==
    [maxRetries : 0..MaxRetriesChoice,
     initialDelay : {250},
     maxDelay : {2000},
     backoffFactor : {3},
     retryableStatuses : {{429}}]

RetryOptionInputs ==
    { [f \in F |-> o[f]] : o \in RetryOverrides, F \in SUBSET RetryFields }

\* { ...DEFAULT_RETRY_OPTIONS, ...options?.retryOptions }
MergeRetryOptions(given) ==
    [f \in RetryFields |->
        IF f \in DOMAIN given THEN given[f] ELSE DEFAULT_RETRY_OPTIONS[f]]

\* Math.pow for a non-negative integer exponent
RECURSIVE Pow(_, _)
Pow(b, e) == IF e <= 0 THEN 1 ELSE b * Pow(b, e - 1)

calculateDelayNoOffset(attempt, options) ==
    Min(options.initialDelay * Pow(options.backoffFactor, attempt),
        options.maxDelay)

calculateDelay(attempt, options) ==
    Min(options.initialDelay * Pow(options.backoffFactor, attempt - 1),
        options.maxDelay)

\* What one fetch attempt can end with: an ok response, a non-ok response
\* (thrown as RequestError with the response), or a rejection of fetch itself
\* (TypeError: network failure, AbortError: aborted, Error: anything else).
HttpStatuses == {400, 404, 429, 503}

NoError == [name |-> "none", status |-> 0, attempt |-> 0]

FetchFailures ==
    { [name |-> "RequestError", status |-> s] : s \in HttpStatuses }
    \cup { [name |-> n, status |-> 0] : n \in {"TypeError", "AbortError", "Error"} }

isRetryableError(error) ==
    \/ error.name = "TypeError"
    \/ error.name = "AbortError"
    \/ error.name = "RequestError"

ShouldRetryInclusive(error, attempt, options) ==
    isRetryableError(error) /\ attempt <= options.maxRetries

\* the condition of the catch block
ShouldRetry(error, attempt, options) ==
    isRetryableError(error) /\ attempt < options.maxRetries

CaughtErrorFirst(previous, failure, attempt) ==
    IF previous = NoError
    THEN [name |-> failure.name, status |-> failure.status, attempt |-> attempt]
    ELSE previous

\* catch (error): the error of the attempt that has just failed, the one the
\* block rethrows when it does not retry
CaughtError(previous, failure, attempt) ==
    [name |-> failure.name, status |-> failure.status, attempt |-> attempt]

HttpInit ==
    /\ hPc = "idle"
    /\ hOpts = DEFAULT_RETRY_OPTIONS
    /\ hAttempt = 0
    /\ hFetches = 0
    /\ hSleeps = <<>>
    /\ hErr = NoError
    /\ hRes = "none"

\* http.request is called: options merged, attempt = 1, first fetch issued
HttpRequest(given) ==
    /\ hPc \in {"idle", "done"}
    /\ hPc' = "fetch"
    /\ hOpts' = MergeRetryOptions(given)
    /\ hAttempt' = 1
    /\ hFetches' = 0
    /\ hSleeps' = <<>>
    /\ hErr' = NoError
    /\ hRes' = "none"

\* fetch resolves with res.ok: return res
HttpFetchOk ==
    /\ hPc = "fetch"
    /\ hFetches' = hFetches + 1
    /\ hPc' = "done"
    /\ hRes' = "ok"
    /\ UNCHANGED <<hOpts, hAttempt, hSleeps, hErr>>

\* fetch rejects, or resolves with !res.ok (RequestError thrown): catch block
HttpFetchFail(failure) ==
    /\ hPc = "fetch"
    /\ hFetches' = hFetches + 1
    /\ hErr' = CaughtError(hErr, failure, hAttempt)
    /\ IF ShouldRetry(failure, hAttempt, hOpts)
       THEN /\ hSleeps' = Append(hSleeps, calculateDelay(hAttempt, hOpts))
            /\ hPc' = "sleep"
            /\ hRes' = hRes
       ELSE /\ hPc' = "done"
            /\ hRes' = "threw"
            /\ hSleeps' = hSleeps
    /\ UNCHANGED <<hOpts, hAttempt>>

\* sleep(delay) resolves: attempt++; continue
HttpSleepDone ==
    /\ hPc = "sleep"
    /\ hAttempt' = hAttempt + 1
    /\ hPc' = "fetch"
    /\ UNCHANGED <<hOpts, hFetches, hSleeps, hErr, hRes>>

NextHttp ==
    \/ \E given \in RetryOptionInputs : HttpRequest(given) /\ UNCHANGED <<cacheVars, metricsVars, sellVars, holderVars, flagVars, scoreVars, pairVars, recsVars, portVars, reportVars>>
    \/ HttpFetchOk /\ UNCHANGED <<cacheVars, metricsVars, sellVars, holderVars, flagVars, scoreVars, pairVars, recsVars, portVars, reportVars>>
    \/ \E failure \in FetchFailures : HttpFetchFail(failure) /\ UNCHANGED <<cacheVars, metricsVars, sellVars, holderVars, flagVars, scoreVars, pairVars, recsVars, portVars, reportVars>>
    \/ HttpSleepDone /\ UNCHANGED <<cacheVars, metricsVars, sellVars, holderVars, flagVars, scoreVars, pairVars, recsVars, portVars, reportVars>>

\* C3 as stated: for every retry policy, maxRetries 0 and 1 included, one
\* http.request call never makes more than maxRetries fetch attempts.
C3_AttemptsNeverExceedMaxRetries ==
    hPc # "idle" => hFetches <= hOpts.maxRetries

\* C3 as amended: one http.request call never makes more than
\* max(1, maxRetries) fetch attempts (the first attempt is unconditional).
C3_AttemptsAtMostMaxOfOneAndMaxRetries ==
    hPc # "idle" => hFetches <= Max(1, hOpts.maxRetries)

\* every permitted attempt was made and failed, with maxRetries >= 2
C3_Witness ==
    /\ hPc = "done"
    /\ hRes = "threw"
    /\ hOpts.maxRetries >= 2
    /\ hFetches = hOpts.maxRetries

\* C24: a request whose attempts all fail with a retryable error ends after
\* attempt max(1, maxRetries) and throws the error of that last attempt; a
\* request that throws always throws the error of its last attempt; a
\* request that returns a response returns it from its last attempt, every
\* earlier attempt having failed.
C24_ThrowsLastErrorReturnsFirstOk ==
    hPc = "done" =>
        /\ hRes \in {"ok", "threw"}
        /\ hFetches = hAttempt
        /\ hRes = "threw" =>
              /\ hErr.attempt = hFetches
              /\ isRetryableError(hErr) => hFetches = Max(1, hOpts.maxRetries)
        /\ hRes = "ok" =>
              IF hFetches = 1 THEN hErr = NoError ELSE hErr.attempt = hFetches - 1

\* three attempts failed with a retryable error each and the third was thrown
C24_Witness ==
    /\ hPc = "done"
    /\ hRes = "threw"
    /\ hOpts.maxRetries = 3
    /\ hFetches = 3
    /\ hErr.attempt = 3
    /\ isRetryableError(hErr)

\* C4: the n-th sleep of a request (between failed attempt n and attempt n+1)
\* lasts min(maxDelay, initialDelay * backoffFactor^(n-1)), there is exactly
\* one sleep between two attempts, no sleep exceeds maxDelay, and with the
\* default policy three failed attempts sleep 1000 ms and then 2000 ms.
C4_BackoffDelays ==
    /\ \A n \in 1..Len(hSleeps) :
          /\ hSleeps[n] =
                Min(hOpts.maxDelay, hOpts.initialDelay * hOpts.backoffFactor ^ (n - 1))
          /\ hSleeps[n] <= hOpts.maxDelay
          /\ n <= hOpts.maxRetries - 1
    /\ hPc = "fetch" => Len(hSleeps) = hFetches
    /\ hPc = "sleep" => Len(hSleeps) = hFetches
    /\ (hOpts = DEFAULT_RETRY_OPTIONS /\ hFetches = 3) => hSleeps = <<1000, 2000>>

\* three sleeps, the first below maxDelay and the third clamped to it
C4_Witness ==
    /\ Len(hSleeps) >= 3
    /\ hSleeps[1] < hOpts.maxDelay
    /\ hSleeps[3] = hOpts.maxDelay
    /\ hOpts.initialDelay * hOpts.backoffFactor ^ 2 > hOpts.maxDelay

\* C5: when the first response has a non-ok status outside retryableStatuses,
\* the request has made exactly one attempt, has not slept, and has failed
\* with the error that carries that response.
C5_NonRetryableStatusFailsImmediately ==
    (/\ hErr.name = "RequestError"
     /\ hErr.attempt = 1
     /\ hErr.status \notin hOpts.retryableStatuses)
    => (/\ hPc = "done"
        /\ hRes = "threw"
        /\ hFetches = 1
        /\ hSleeps = <<>>)

(***************************************************************************)
(*                      CACHED PROVIDER ADAPTERS                           *)
(***************************************************************************)

\* adapter calls made in one behaviour
MaxAdapterCalls == 2
\* clock advances in one behaviour, each of TickMs
MaxTicks == 2
TickMs == 150000

AdapterClients == {"dexscreener", "birdeye", "coingecko", "helius"}

\* `units` and parseTimeToMs: the string is a sequence of characters
Digits == <<"0", "1", "2", "3", "4", "5", "6", "7", "8", "9">>
DigitValue(c) == (CHOOSE i \in 1..10 : Digits[i] = c) - 1
IsDigit(c) == \E i \in 1..10 : Digits[i] = c
UnitNames == {<<"m", "s">>, <<"s">>, <<"m">>, <<"h">>, <<"d">>}
UnitMs(u) ==
    IF u = <<"m", "s">> THEN 1
    ELSE IF u = <<"s">> THEN 1000
    ELSE IF u = <<"m">> THEN 60 * 1000
    ELSE IF u = <<"h">> THEN 60 * 60 * 1000
    ELSE 24 * 60 * 60 * 1000

RECURSIVE parseInt(_)
parseInt(ds) ==
    IF ds = <<>> THEN 0
    ELSE 10 * parseInt(SubSeq(ds, 1, Len(ds) - 1)) + DigitValue(ds[Len(ds)])

\* number of leading digits: the (\d+) group of /^(\d+)([a-z]+)$/i
RECURSIVE LeadingDigits(_)
LeadingDigits(str) ==
    IF str = <<>> \/ ~IsDigit(Head(str)) THEN 0
    ELSE 1 + LeadingDigits(Tail(str))

\* The strings of the model carry lower-case units of `units` only, so the
\* product units[unit] * parseInt(value) is a number.
parseTimeToMs(timeStr) ==
    LET k == LeadingDigits(timeStr)
        unit == SubSeq(timeStr, k + 1, Len(timeStr))
    IN  IF k = 0 \/ unit \notin UnitNames THEN 0
        ELSE UnitMs(unit) * parseInt(SubSeq(timeStr, 1, k))

\* expires is a string (kind "str"), a number of ms (kind "num") or absent
parseExpires(expires) ==
    IF expires.kind = "str" THEN parseTimeToMs(expires.str) ELSE expires.ms

NoExpires == [kind |-> "none", str |-> <<>>, ms |-> 0]
ExpiresInputs ==
    { NoExpires,
      [kind |-> "str", str |-> <<"1", "m">>, ms |-> 0],
      [kind |-> "str", str |-> <<"5", "m">>, ms |-> 0],
      [kind |-> "num", str |-> <<>>, ms |-> 120000] }

\* options?.expires is truthy
HasExpires(req) == req.expires.kind = "str" \/ (req.expires.kind = "num" /\ req.expires.ms # 0)

\* buildUrl: the url with the query of the non-null params appended; the
\* string is kept as the pair of its path and its query
buildUrl(path, params) ==
    <<path, SelectSeq(params, LAMBDA kv : kv[2] # "null")>>

\* the cache key: the parts that are set, joined by "/"
cacheKey(req) ==
    IF req.client = "helius"
    THEN <<"helius", "token-holders", req.params>>
    ELSE SelectSeq(<<req.client, req.chain, buildUrl(req.path, req.params)>>,
                   LAMBDA part : part # "")

AdapterRequests ==
    { [client |-> c, chain |-> ch, path |-> "p", params |-> ps, expires |-> e] :
        c \in AdapterClients,
        ch \in {""},
        ps \in {<<<<"address", "a">>>>, <<<<"address", "a">>, <<"x", "null">>>>,
                <<<<"address", "b">>>>},
        e \in ExpiresInputs }

NoValue == 0

\* ICacheManager.get: the value stored under the key, unless it has expired
CacheGet(key) ==
    IF \E en \in cache : en.key = key /\ (en.expires = 0 \/ en.expires > cNow)
    THEN (CHOOSE en \in cache : en.key = key).value
    ELSE NoValue

\* ICacheManager.set: the entry of the key is replaced (expires 0: none given)
CacheSet(key, value, expires) ==
    {en \in cache : en.key # key}
        \cup {[key |-> key, value |-> value, expires |-> expires]}

\* the options the adapter passes to cache.set
SetExpiresNone(req) == 0

SetExpires(req) ==
    IF req.client = "coingecko" THEN 0 ELSE cNow + parseExpires(req.expires)

CacheInit ==
    /\ cPc = "idle"
    /\ cReq = [client |-> "dexscreener", chain |-> "", path |-> "p",
               params |-> <<>>, expires |-> NoExpires]
    /\ cache = {}
    /\ cNow = 0
    /\ cNetCalls = 0
    /\ cCalls = 0
    /\ cFetched = NoValue
    /\ cSetFailed = FALSE
    /\ cOut = [kind |-> "none", value |-> NoValue]

\* request(path, params, options) / fetchHolderList(address, options) is called
AdapterCall(req) ==
    /\ cPc \in {"idle", "done"}
    /\ cCalls < MaxAdapterCalls
    /\ cCalls' = cCalls + 1
    /\ cReq' = req
    /\ cPc' = IF HasExpires(req) THEN "get" ELSE "fetch"
    /\ cNetCalls' = IF HasExpires(req) THEN cNetCalls ELSE cNetCalls + 1
    /\ cFetched' = NoValue
    /\ cSetFailed' = FALSE
    /\ cOut' = [kind |-> "none", value |-> NoValue]
    /\ UNCHANGED <<cache, cNow>>

AdapterCacheGetAlwaysFetches ==
    /\ cPc = "get"
    /\ cPc' = "fetch"
    /\ cNetCalls' = cNetCalls + 1
    /\ UNCHANGED <<cReq, cache, cNow, cCalls, cFetched, cSetFailed, cOut>>

\* await this.cache.get(cacheKey) resolves
AdapterCacheGet ==
    /\ cPc = "get"
    /\ LET cached == CacheGet(cacheKey(cReq))
       IN  IF cached # NoValue
           THEN /\ cPc' = "done"
                /\ cOut' = [kind |-> "value", value |-> cached]
                /\ cNetCalls' = cNetCalls
           ELSE /\ cPc' = "fetch"
                /\ cNetCalls' = cNetCalls + 1
                /\ cOut' = cOut
    /\ UNCHANGED <<cReq, cache, cNow, cCalls, cFetched, cSetFailed>>

\* the network request resolves with data (the n-th request returns n)
AdapterFetchOk ==
    /\ cPc = "fetch"
    /\ cFetched' = cNetCalls
    /\ IF HasExpires(cReq)
       THEN cPc' = "set" /\ cOut' = cOut
       ELSE cPc' = "done" /\ cOut' = [kind |-> "value", value |-> cNetCalls]
    /\ UNCHANGED <<cReq, cache, cNow, cNetCalls, cCalls, cSetFailed>>

\* the network request fails: the adapter throws
AdapterFetchFail ==
    /\ cPc = "fetch"
    /\ cPc' = "done"
    /\ cOut' = [kind |-> "threw", value |-> NoValue]
    /\ UNCHANGED <<cReq, cache, cNow, cNetCalls, cCalls, cFetched, cSetFailed>>

\* await this.cache.set(...) resolves: return the response
AdapterCacheSetOk ==
    /\ cPc = "set"
    /\ cache' = CacheSet(cacheKey(cReq), cFetched, SetExpires(cReq))
    /\ cPc' = "done"
    /\ cOut' = [kind |-> "value", value |-> cFetched]
    /\ UNCHANGED <<cReq, cNow, cNetCalls, cCalls, cFetched, cSetFailed>>

\* await this.cache.set(...) rejects: nothing catches it in request(), and
\* fetchHolderList catches it only to throw its own error
AdapterCacheSetFail ==
    /\ cPc = "set"
    /\ cSetFailed' = TRUE
    /\ cPc' = "done"
    /\ cOut' = [kind |-> "threw", value |-> NoValue]
    /\ UNCHANGED <<cReq, cache, cNow, cNetCalls, cCalls, cFetched>>

\* time passes
CacheTick ==
    /\ cNow < MaxTicks * TickMs
    /\ cNow' = cNow + TickMs
    /\ UNCHANGED <<cPc, cReq, cache, cNetCalls, cCalls, cFetched, cSetFailed, cOut>>

NextCache ==
    \/ \E req \in AdapterRequests : AdapterCall(req) /\ UNCHANGED <<httpVars, metricsVars, sellVars, holderVars, flagVars, scoreVars, pairVars, recsVars, portVars, reportVars>>
    \/ AdapterCacheGet /\ UNCHANGED <<httpVars, metricsVars, sellVars, holderVars, flagVars, scoreVars, pairVars, recsVars, portVars, reportVars>>
    \/ AdapterFetchOk /\ UNCHANGED <<httpVars, metricsVars, sellVars, holderVars, flagVars, scoreVars, pairVars, recsVars, portVars, reportVars>>
    \/ AdapterFetchFail /\ UNCHANGED <<httpVars, metricsVars, sellVars, holderVars, flagVars, scoreVars, pairVars, recsVars, portVars, reportVars>>
    \/ AdapterCacheSetOk /\ UNCHANGED <<httpVars, metricsVars, sellVars, holderVars, flagVars, scoreVars, pairVars, recsVars, portVars, reportVars>>
    \/ AdapterCacheSetFail /\ UNCHANGED <<httpVars, metricsVars, sellVars, holderVars, flagVars, scoreVars, pairVars, recsVars, portVars, reportVars>>
    \/ CacheTick /\ UNCHANGED <<httpVars, metricsVars, sellVars, holderVars, flagVars, scoreVars, pairVars, recsVars, portVars, reportVars>>

\* the unexpired entries the cache holds under the key of a request
HeldFor(req) ==
    { en \in cache :
        /\ en.key = <<req.client>> \o (IF req.client = "helius"
                                       THEN <<"token-holders", req.params>>
                                       ELSE <<<<req.path,
                                                SelectSeq(req.params,
                                                          LAMBDA kv : kv[2] # "null")>>>>)
        /\ (en.expires = 0 \/ en.expires > cNow) }

\* C25: with an expiry supplied, a call that finds a value under its key
\* returns it and issues no network request and no cache write; a call that
\* finds none issues one network request and, the write succeeding, stores
\* the fetched result under that key, so that an identical call made before
\* the entry expires finds it.
C25_GetBeforeFetchSetAfterFetch ==
    [][
        /\ (cPc = "get" /\ cPc' # "get") =>
             IF HeldFor(cReq) # {}
             THEN /\ cPc' = "done"
                  /\ \E en \in HeldFor(cReq) : cOut' = [kind |-> "value", value |-> en.value]
                  /\ cNetCalls' = cNetCalls
                  /\ cache' = cache
             ELSE /\ cPc' = "fetch"
                  /\ cNetCalls' = cNetCalls + 1
                  /\ cache' = cache
        /\ cPc = "fetch" => (cNetCalls' = cNetCalls /\ cache' = cache)
        /\ (cPc = "set" /\ cPc' = "done" /\ ~cSetFailed') =>
             /\ cNetCalls' = cNetCalls
             /\ \E en \in cache' : /\ en.value = cFetched
                                   /\ en \in {e \in cache' : e.key = cacheKey(cReq)}
             /\ cOut' = [kind |-> "value", value |-> cFetched]
             /\ \A req \in AdapterRequests :
                   (/\ req.client = cReq.client /\ req.path = cReq.path
                    /\ IF req.client = "helius"
                       THEN req.params = cReq.params
                       ELSE buildUrl(req.path, req.params)
                               = buildUrl(cReq.path, cReq.params))
                   => \E en \in cache' : en.key = cacheKey(req) /\ en.value = cFetched
       ]_vars

\* the second of two calls with the same path and query found the value the
\* first had fetched and stored: one network request in all
C25_Witness ==
    /\ cCalls = 2
    /\ cPc = "done"
    /\ HasExpires(cReq)
    /\ cNetCalls = 1
    /\ cFetched = NoValue
    /\ cOut = [kind |-> "value", value |-> 1]
    /\ HeldFor(cReq) # {}

\* C26: every entry an adapter writes to the cache carries an expiry, the
\* time of the write plus the requested duration ("5m" = 300000 ms, "1m" =
\* 60000 ms, a number of ms as given).
C26_EveryCacheWriteCarriesExpiry ==
    [][(cPc = "set" /\ cPc' = "done" /\ ~cSetFailed') =>
          LET duration ==
                  IF cReq.expires.kind = "num" THEN cReq.expires.ms
                  ELSE IF cReq.expires.str = <<"5", "m">> THEN 300000
                  ELSE IF cReq.expires.str = <<"1", "m">> THEN 60000
                  ELSE 3600000
          IN  \A en \in cache' :
                  en.key = cacheKey(cReq) => en.expires = cNow + duration
       ]_vars

\* C6: when a cached adapter request fetched successfully and its cache
\* write then failed, the request returns the fetched data.
C6_CacheWriteFailureStillReturnsData ==
    (cPc = "done" /\ cSetFailed /\ cFetched # NoValue)
    => cOut = [kind |-> "value", value |-> cFetched]

(***************************************************************************)
(*                 TRUST SCORE ENGINE: RECOMMENDER METRICS                 *)
(* Numbers are fixed-point: FixedPointUnit units make 1.  A division       *)
(* rounds down where the source's floating-point division is exact.        *)
(***************************************************************************)

FixedPointUnit == 100
\* calls of updateRecommenderMetrics in one behaviour
MaxMetricsCalls == 2
\* advances of the clock in one behaviour
MaxClockSteps == 1
TicksPerDay == 2

\* DECAY_RATE = 0.95, as a percentage
DECAY_RATE_PERCENT == 95
MAX_DECAY_DAYS == 30

MetricsCallers == {"u1", "u2"}

Abs(x) == IF x < 0 THEN -x ELSE x

\* the token performances passed to updateRecommenderMetrics: the four risk
\* flags and the 24h price change matter
TokenPerformanceInputs ==
    { [rugPull |-> flags[1], isScam |-> flags[2], rapidDump |-> flags[3],
       suspiciousVolume |-> flags[4], priceChange24h |-> flags[5] * FixedPointUnit] :
        flags \in { <<FALSE, FALSE, FALSE, FALSE, 0>>,
                    <<FALSE, FALSE, TRUE, FALSE, 30>>,
                    <<TRUE, FALSE, FALSE, TRUE, 0>>,
                    <<TRUE, TRUE, TRUE, TRUE, -20>> } }

\* wallet balances read by getRecommenderBalance (0 also when the read fails)
WalletBalances == {2500000}

calculateRiskScoreHeavyDump(tokenPerformance) ==
    (IF tokenPerformance.rugPull THEN 10 * FixedPointUnit ELSE 0)
    + (IF tokenPerformance.isScam THEN 10 * FixedPointUnit ELSE 0)
    + (IF tokenPerformance.rapidDump THEN 10 * FixedPointUnit ELSE 0)
    + (IF tokenPerformance.suspiciousVolume THEN 5 * FixedPointUnit ELSE 0)

calculateRiskScore(tokenPerformance) ==
    (IF tokenPerformance.rugPull THEN 10 * FixedPointUnit ELSE 0)
    + (IF tokenPerformance.isScam THEN 10 * FixedPointUnit ELSE 0)
    + (IF tokenPerformance.rapidDump THEN 5 * FixedPointUnit ELSE 0)
    + (IF tokenPerformance.suspiciousVolume THEN 5 * FixedPointUnit ELSE 0)

calculateConsistencyScore(tokenPerformance, recommenderMetrics) ==
    Abs(tokenPerformance.priceChange24h - recommenderMetrics.avgTokenPerformance)

calculateTrustScore(tokenPerformance, recommenderMetrics) ==
    (calculateRiskScore(tokenPerformance)
     + calculateConsistencyScore(tokenPerformance, recommenderMetrics)) \div 2

calculateOverallRiskScoreRiskOnly(tokenPerformance, recommenderMetrics) ==
    calculateRiskScore(tokenPerformance)

calculateOverallRiskScore(tokenPerformance, recommenderMetrics) ==
    (calculateRiskScore(tokenPerformance)
     + calculateConsistencyScore(tokenPerformance, recommenderMetrics)) \div 2

\* Math.floor((now - lastActive) / one day)
InactiveDays(now, lastActive) == (now - lastActive) \div TicksPerDay

\* score * Math.pow(DECAY_RATE, exponent), one factor at a time
RECURSIVE DecayBy(_, _)
DecayBy(score, exponent) ==
    IF exponent = 0 THEN score
    ELSE IF exponent > 0
         THEN DecayBy((score * DECAY_RATE_PERCENT) \div 100, exponent - 1)
         ELSE DecayBy((score * 100) \div DECAY_RATE_PERCENT, exponent + 1)

DecayedScoreClampedLate(recommenderMetrics, now) ==
    DecayBy(recommenderMetrics.trustScore,
            Min(InactiveDays(now, recommenderMetrics.lastActiveDate),
                MAX_DECAY_DAYS + 5))

\* decayedScore = trustScore * Math.pow(DECAY_RATE, Math.min(inactiveDays, MAX_DECAY_DAYS))
DecayedScore(recommenderMetrics, now) ==
    DecayBy(recommenderMetrics.trustScore,
            Min(InactiveDays(now, recommenderMetrics.lastActiveDate), MAX_DECAY_DAYS))

\* the locals of updateRecommenderMetrics, computed from the metrics read
MetricsLocals(recommenderMetrics, tokenPerformance, balance, now) ==
    LET totalRecommendations == recommenderMetrics.totalRecommendations + 1
    IN  [totalRecommendations |-> totalRecommendations,
         successfulRecs |->
            IF tokenPerformance.rugPull
            THEN recommenderMetrics.successfulRecs
            ELSE recommenderMetrics.successfulRecs + 1,
         avgTokenPerformance |->
            (recommenderMetrics.avgTokenPerformance
                * recommenderMetrics.totalRecommendations
             + tokenPerformance.priceChange24h) \div totalRecommendations,
         overallTrustScore |->
            calculateTrustScore(tokenPerformance, recommenderMetrics),
         riskScore |->
            calculateOverallRiskScore(tokenPerformance, recommenderMetrics),
         consistencyScore |->
            calculateConsistencyScore(tokenPerformance, recommenderMetrics),
         virtualConfidence |-> (balance * FixedPointUnit) \div 1000000,
         decayedScore |-> DecayedScore(recommenderMetrics, now)]

NewRecommenderMetricsStaleTotal(recommenderMetrics, tokenPerformance, balance, now) ==
    LET l == MetricsLocals(recommenderMetrics, tokenPerformance, balance, now)
    IN  [trustScore |-> l.overallTrustScore,
         totalRecommendations |-> recommenderMetrics.totalRecommendations,
         successfulRecs |-> l.successfulRecs,
         avgTokenPerformance |-> l.avgTokenPerformance,
         riskScore |-> l.riskScore,
         consistencyScore |-> l.consistencyScore,
         virtualConfidence |-> l.virtualConfidence,
         lastActiveDate |-> now,
         trustDecay |-> l.decayedScore,
         lastUpdated |-> now]

\* newRecommenderMetrics of updateRecommenderMetrics
NewRecommenderMetrics(recommenderMetrics, tokenPerformance, balance, now) ==
    LET l == MetricsLocals(recommenderMetrics, tokenPerformance, balance, now)
    IN  [trustScore |-> l.overallTrustScore,
         totalRecommendations |-> l.totalRecommendations,
         successfulRecs |-> l.successfulRecs,
         avgTokenPerformance |-> l.avgTokenPerformance,
         riskScore |-> l.riskScore,
         consistencyScore |-> l.consistencyScore,
         virtualConfidence |-> l.virtualConfidence,
         lastActiveDate |-> now,
         trustDecay |-> l.decayedScore,
         lastUpdated |-> now]

\* the row of a recommender without history (initializeRecommenderMetrics)
FreshMetrics ==
    [trustScore |-> 0, totalRecommendations |-> 0, successfulRecs |-> 0,
     avgTokenPerformance |-> 0, riskScore |-> 0, consistencyScore |-> 0,
     virtualConfidence |-> 0, lastActiveDate |-> 0, trustDecay |-> 0,
     lastUpdated |-> 0]

\* the metrics a behaviour starts from: the fresh row, or the row one
\* earlier update left
InitialMetrics ==
    {FreshMetrics}
    \cup { NewRecommenderMetrics(FreshMetrics, tp, 0, 0) : tp \in TokenPerformanceInputs }

\* the recommenderMetrics of the object generateTrustScore returns
GeneratedRecommenderMetrics(recommenderMetrics, balance, now) ==
    [trustScore |-> recommenderMetrics.trustScore,
     totalRecommendations |-> recommenderMetrics.totalRecommendations,
     successfulRecs |-> recommenderMetrics.successfulRecs,
     avgTokenPerformance |-> recommenderMetrics.avgTokenPerformance,
     riskScore |-> recommenderMetrics.riskScore,
     consistencyScore |-> recommenderMetrics.consistencyScore,
     virtualConfidence |-> (balance * FixedPointUnit) \div 1000000,
     lastActiveDate |-> now,
     trustDecay |-> DecayedScore(recommenderMetrics, now),
     lastUpdated |-> now]

GenerateStorePersisting(store, generated) == generated

\* what generateTrustScore leaves in the metrics store when it returns
GenerateStore(store, generated) == store

IdleMetricsTask ==
    [op |-> "none", pc |-> "idle", tokenPerformance |-> <<>>, read |-> <<>>, new |-> <<>>,
     result |-> "none"]

MetricsStart(stores) ==
    /\ mMetrics \in stores
    /\ mNow = 0
    /\ mTask = [u \in MetricsCallers |-> IdleMetricsTask]
    /\ mCalls = 0
    /\ mWrites = 0
    /\ mTicks = 0

MetricsInit == MetricsStart({<<>>} \cup { <<m>> : m \in InitialMetrics })

\* the metrics store of a process that never updates metrics
MetricsIdle == MetricsStart({<<>>})

\* updateRecommenderMetrics is called: getRecommenderMetrics is awaited
UpdateMetricsCall(u, tokenPerformance) ==
    /\ mTask[u].pc \in {"idle", "done"}
    /\ mCalls < MaxMetricsCalls
    /\ mCalls' = mCalls + 1
    /\ mTask' = [mTask EXCEPT ![u] =
                    [IdleMetricsTask EXCEPT !.op = "update", !.pc = "read",
                                            !.tokenPerformance = <<tokenPerformance>>]]
    /\ UNCHANGED <<mMetrics, mNow, mWrites, mTicks>>

\* getRecommenderMetrics resolves: throw when there are none, else
\* getRecommenderBalance is awaited
UpdateMetricsRead(u) ==
    /\ mTask[u].pc = "read"
    /\ IF mMetrics = <<>>
       THEN mTask' = [mTask EXCEPT ![u].pc = "done", ![u].result = "threw"]
       ELSE mTask' = [mTask EXCEPT ![u].pc = "balance", ![u].read = mMetrics]
    /\ UNCHANGED <<mMetrics, mNow, mCalls, mWrites, mTicks>>

\* getRecommenderBalance resolves: the new record is built from the metrics
\* read before and trustScoreDb.updateRecommenderMetrics is awaited
UpdateMetricsBalance(u, balance) ==
    /\ mTask[u].pc = "balance"
    /\ mTask' = [mTask EXCEPT
                    ![u].pc = "write",
                    ![u].new = <<NewRecommenderMetrics(mTask[u].read[1],
                                    mTask[u].tokenPerformance[1], balance, mNow)>>]
    /\ UNCHANGED <<mMetrics, mNow, mCalls, mWrites, mTicks>>

\* trustScoreDb.updateRecommenderMetrics resolves: the row is replaced
UpdateMetricsWrite(u) ==
    /\ mTask[u].pc = "write"
    /\ mMetrics' = mTask[u].new
    /\ mWrites' = mWrites + 1
    /\ mTask' = [mTask EXCEPT ![u].pc = "done", ![u].result = "returned"]
    /\ UNCHANGED <<mNow, mCalls, mTicks>>

\* generateTrustScore is called: getProcessedTokenData is awaited
GenerateCall(u) ==
    /\ mTask[u].pc \in {"idle", "done"}
    /\ mCalls < MaxMetricsCalls
    /\ mCalls' = mCalls + 1
    /\ mTask' = [mTask EXCEPT ![u] =
                    [IdleMetricsTask EXCEPT !.op = "generate", !.pc = "gen_data"]]
    /\ UNCHANGED <<mMetrics, mNow, mWrites, mTicks>>

\* getProcessedTokenData resolves and getRecommenderMetrics is awaited, or it
\* rejects
GenerateData(u, ok) ==
    /\ mTask[u].pc = "gen_data"
    /\ mTask' = IF ok THEN [mTask EXCEPT ![u].pc = "gen_read"]
                ELSE [mTask EXCEPT ![u].pc = "done", ![u].result = "threw"]
    /\ UNCHANGED <<mMetrics, mNow, mCalls, mWrites, mTicks>>

\* getRecommenderMetrics resolves: throw when there are none, else
\* getRecommenderBalance is awaited
GenerateRead(u) ==
    /\ mTask[u].pc = "gen_read"
    /\ IF mMetrics = <<>>
       THEN mTask' = [mTask EXCEPT ![u].pc = "done", ![u].result = "threw"]
       ELSE mTask' = [mTask EXCEPT ![u].pc = "gen_balance", ![u].read = mMetrics]
    /\ UNCHANGED <<mMetrics, mNow, mCalls, mWrites, mTicks>>

\* getRecommenderBalance resolves: the decay is computed from the metrics
\* read before and calculateValidationTrust is awaited
GenerateBalance(u, balance) ==
    /\ mTask[u].pc = "gen_balance"
    /\ mTask' = [mTask EXCEPT
                    ![u].pc = "gen_validation",
                    ![u].new = <<GeneratedRecommenderMetrics(mTask[u].read[1],
                                    balance, mNow)>>]
    /\ UNCHANGED <<mMetrics, mNow, mCalls, mWrites, mTicks>>

\* calculateValidationTrust resolves and generateTrustScore returns its
\* object, or it rejects
GenerateValidation(u, ok) ==
    /\ mTask[u].pc = "gen_validation"
    /\ mTask' = [mTask EXCEPT ![u].pc = "done",
                              ![u].result = IF ok THEN "returned" ELSE "threw"]
    /\ mMetrics' = IF ok THEN GenerateStore(mMetrics, mTask[u].new) ELSE mMetrics
    /\ UNCHANGED <<mNow, mCalls, mWrites, mTicks>>

\* time passes
MetricsTick(ticks) ==
    /\ mTicks < MaxClockSteps
    /\ mTicks' = mTicks + 1
    /\ mNow' = mNow + ticks
    /\ UNCHANGED <<mMetrics, mTask, mCalls, mWrites>>

\* a tick, two days and a tick, MAX_DECAY_DAYS days, twice MAX_DECAY_DAYS days
ClockSteps ==
    {1, 2 * TicksPerDay + 1, MAX_DECAY_DAYS * TicksPerDay,
     2 * MAX_DECAY_DAYS * TicksPerDay}

NextMetrics ==
    \/ \E u \in MetricsCallers, tp \in TokenPerformanceInputs :
          UpdateMetricsCall(u, tp) /\ UNCHANGED <<httpVars, cacheVars, sellVars, holderVars, flagVars, scoreVars, pairVars, recsVars, portVars, reportVars>>
    \/ \E u \in MetricsCallers : UpdateMetricsRead(u) /\ UNCHANGED <<httpVars, cacheVars, sellVars, holderVars, flagVars, scoreVars, pairVars, recsVars, portVars, reportVars>>
    \/ \E u \in MetricsCallers, b \in WalletBalances :
          UpdateMetricsBalance(u, b) /\ UNCHANGED <<httpVars, cacheVars, sellVars, holderVars, flagVars, scoreVars, pairVars, recsVars, portVars, reportVars>>
    \/ \E u \in MetricsCallers : UpdateMetricsWrite(u) /\ UNCHANGED <<httpVars, cacheVars, sellVars, holderVars, flagVars, scoreVars, pairVars, recsVars, portVars, reportVars>>
    \/ \E u \in MetricsCallers : GenerateCall(u) /\ UNCHANGED <<httpVars, cacheVars, sellVars, holderVars, flagVars, scoreVars, pairVars, recsVars, portVars, reportVars>>
    \/ \E u \in MetricsCallers, ok \in BOOLEAN :
          GenerateData(u, ok) /\ UNCHANGED <<httpVars, cacheVars, sellVars, holderVars, flagVars, scoreVars, pairVars, recsVars, portVars, reportVars>>
    \/ \E u \in MetricsCallers : GenerateRead(u) /\ UNCHANGED <<httpVars, cacheVars, sellVars, holderVars, flagVars, scoreVars, pairVars, recsVars, portVars, reportVars>>
    \/ \E u \in MetricsCallers, b \in WalletBalances :
          GenerateBalance(u, b) /\ UNCHANGED <<httpVars, cacheVars, sellVars, holderVars, flagVars, scoreVars, pairVars, recsVars, portVars, reportVars>>
    \/ \E u \in MetricsCallers, ok \in BOOLEAN :
          GenerateValidation(u, ok) /\ UNCHANGED <<httpVars, cacheVars, sellVars, holderVars, flagVars, scoreVars, pairVars, recsVars, portVars, reportVars>>
    \/ \E ticks \in ClockSteps :
          MetricsTick(ticks) /\ UNCHANGED <<httpVars, cacheVars, sellVars, holderVars, flagVars, scoreVars, pairVars, recsVars, portVars, reportVars>>

\* C9: every persisted RecommenderMetrics has
\* totalRecommendations >= successfulRecs >= 0, after any sequence of
\* updateRecommenderMetrics calls that started from metrics satisfying it.
C9_SuccessfulRecsWithinTotal ==
    \A i \in 1..Len(mMetrics) :
        /\ mMetrics[i].totalRecommendations >= mMetrics[i].successfulRecs
        /\ mMetrics[i].successfulRecs >= 0

\* two updates were written and the row has as many successes as recommendations
C9_Witness ==
    /\ mWrites >= 2
    /\ mMetrics[1].successfulRecs = mMetrics[1].totalRecommendations
    /\ mMetrics[1].totalRecommendations >= 2

\* C11: the decayed score computed by updateRecommenderMetrics and by
\* generateTrustScore is the prior trust score times 0.95^inactiveDays for
\* 0 <= inactiveDays < 30, and for every inactiveDays >= 30 it is the value
\* for 30 days.
C11_DecayClampsAtThirtyDays ==
    \A u \in MetricsCallers :
        mTask[u].new # <<>> =>
            LET prior == mTask[u].read[1].trustScore
                days == (mTask[u].new[1].lastActiveDate
                         - mTask[u].read[1].lastActiveDate) \div TicksPerDay
                after[d \in 0..30] ==
                    IF d = 0 THEN prior ELSE (after[d - 1] * 95) \div 100
            IN  /\ days >= 30 => mTask[u].new[1].trustDecay = after[30]
                /\ (0 <= days /\ days < 30) => mTask[u].new[1].trustDecay = after[days]

\* a decay was computed after sixty inactive days from a positive trust score
C11_Witness ==
    \E u \in MetricsCallers :
        /\ mTask[u].new # <<>>
        /\ mTask[u].read[1].trustScore > 0
        /\ mTask[u].new[1].trustDecay > 0
        /\ mTask[u].new[1].lastActiveDate - mTask[u].read[1].lastActiveDate
              = 60 * TicksPerDay

C29_TrustScoreEqualsOverallRiskScore ==
    /\ \A u \in MetricsCallers :
          (mTask[u].op = "update" /\ mTask[u].read # <<>>) =>
              LET tokenPerformance == mTask[u].tokenPerformance[1]
                  recommenderMetrics == mTask[u].read[1]
                  expected ==
                      (calculateRiskScore(tokenPerformance)
                       + Abs(tokenPerformance.priceChange24h
                             - recommenderMetrics.avgTokenPerformance)) \div 2
              IN  /\ calculateTrustScore(tokenPerformance, recommenderMetrics) = expected
                  /\ calculateOverallRiskScore(tokenPerformance, recommenderMetrics) = expected
                  /\ mTask[u].new # <<>> =>
                        /\ mTask[u].new[1].trustScore = expected
                        /\ mTask[u].new[1].riskScore = expected
    /\ \A i \in 1..Len(mMetrics) : mMetrics[i].trustScore = mMetrics[i].riskScore

\* a record was written whose trust score and risk score are the same
\* non-zero value, above the flag score alone
C29_Witness ==
    /\ mWrites >= 1
    /\ mMetrics # <<>>
    /\ mMetrics[1].trustScore = mMetrics[1].riskScore
    /\ mMetrics[1].consistencyScore > 0
    /\ mMetrics[1].trustScore > 0

\* C10: every record written by updateRecommenderMetrics has
\* 0 <= trustDecay <= trustScore, both read from that record.
C10_TrustDecayWithinTrustScore ==
    mWrites > 0 =>
        /\ 0 <= mMetrics[1].trustDecay
        /\ mMetrics[1].trustDecay <= mMetrics[1].trustScore

(***************************************************************************)
(*        SIMULATED SELLING ORCHESTRATOR AND TRADE BOOKKEEPING             *)
(* A task is one async call in flight; its pc names the await it is        *)
(* suspended at.  An action is the resolution of that await together with  *)
(* the synchronous code that follows it, up to the next await.             *)
(***************************************************************************)

\* calls and deliveries in one behaviour
MaxSellCalls == 3
\* messages the queue delivers in one behaviour
MaxMessages == 2
\* calls of createTradePerformance in one behaviour
MaxBuys == 1

Tokens == {"tA", "tB"}
RecIds == {"r1", "r2"}
TaskIds == {1, 2}
\* the token that gets bought and the recommender who buys; "tB" and "r2"
\* stand for a token never bought and a recommender without a trade
TradedTokens == {"tA"}
Buyers == {"r1"}
BuyAmounts == {2}
\* amounts of the sell directives: part of the balance, all of it
SellAmounts == {1, 2}
\* amounts of the direct calls of updateSellDetails
DirectSellAmounts == {1}
\* the token's price in cents when the orchestrator is studied
MarketPrices == {50}

IdleTask ==
    [op |-> "none", pc |-> "idle", site |-> "none", token |-> "", rec |-> "",
     amount |-> 0, sim |-> FALSE, old |-> 0, buyTs |-> 0, msg |-> 0,
     price |-> 0, trade |-> <<>>,
     scan |-> [tok \in Tokens |-> "none"], picked |-> {}, startedFor |-> {},
     started |-> FALSE, overlap |-> FALSE, created |-> FALSE, mirrored |-> FALSE,
     retId |-> "", out |-> "none"]

\* the call returns or throws: its locals are gone, what the caller sees stays
Return(r, outcome) ==
    [IdleTask EXCEPT !.op = r.op, !.pc = "done", !.token = r.token, !.rec = r.rec,
                     !.msg = r.msg, !.started = r.started, !.overlap = r.overlap,
                     !.created = r.created, !.mirrored = r.mirrored,
                     !.retId = r.retId, !.picked = r.picked,
                     !.startedFor = r.startedFor, !.out = outcome]

Free(t) == task[t].pc \in {"idle", "done"}
InFlight(t) == ~Free(t)

\* a new call takes the first slot that holds no call in flight
Callable(t) == Free(t) /\ \A k \in TaskIds : Free(k) => t <= k

\* TrustScoreAdapter.getOrCreateRecommender: the row of the identity is
\* returned, and inserted first when there is none
DbGetOrCreateRecommender(recs, id) ==
    IF recs[id] > 0 THEN recs ELSE [recs EXCEPT ![id] = 1]

\* TrustScoreAdapter.addRecommender: a row is inserted
DbAddRecommender(recs, id) == [recs EXCEPT ![id] = @ + 1]

StoreRecommenderByInsert(recs, id) == DbAddRecommender(recs, id)

\* what TrustScoreManager.getOrCreateRecommender asks of the database
StoreRecommender(recs, id) == DbGetOrCreateRecommender(recs, id)

\* TrustScoreAdapter.getLatestTradePerformance: the index of the latest row
\* of the token, recommender and table (simulation or not); 0: none
LatestTrade(trades, token, rec, sim) ==
    LET found == { i \in 1..Len(trades) :
                     /\ trades[i].token = token
                     /\ trades[i].rec = rec
                     /\ trades[i].sim = sim }
    IN  IF found = {} THEN 0 ELSE CHOOSE i \in found : \A j \in found : j <= i

\* TrustScoreAdapter.updateTradePerformanceOnSell: the sell fields of the
\* rows with that key are set
UpdateTradeOnSell(trades, token, rec, buyTs, sim, sellDetailsData) ==
    [i \in 1..Len(trades) |->
        IF /\ trades[i].token = token
           /\ trades[i].rec = rec
           /\ trades[i].buyTs = buyTs
           /\ trades[i].sim = sim
        THEN [trades[i] EXCEPT !.sells = @ + 1,
                               !.sellAmount = sellDetailsData.amount,
                               !.sellPrice = sellDetailsData.price,
                               !.sellValue = sellDetailsData.valueUsd,
                               !.profitUsd = sellDetailsData.profitUsd,
                               !.profitPercent = sellDetailsData.profitPercent]
        ELSE trades[i]]

\* ------------------------------------------------------------------------
\* TrustScoreManager.getOrCreateRecommender, called from `site`

\* the caller's next await once getOrCreateRecommender has returned
AfterGetOrCreate(r) ==
    IF r.site = "pm" THEN [r EXCEPT !.pc = "goc_db", !.site = "esd"]
    ELSE IF r.site = "esd" THEN [r EXCEPT !.pc = "goc_db", !.site = "usd"]
    ELSE IF r.site = "usd" THEN [r EXCEPT !.pc = "usd_fetch"]
    ELSE IF r.site = "buy" THEN [r EXCEPT !.pc = "buy_fetch"]
    ELSE Return(r, "returned")

\* getOrCreateRecommender is called by a user of the trust score engine
GetOrCreateCall(t, rec) ==
    /\ Callable(t)
    /\ sCalls < MaxSellCalls
    /\ sCalls' = sCalls + 1
    /\ sBuys' = sBuys
    /\ LET others == { k \in TaskIds \ {t} :
                         InFlight(k) /\ task[k].op = "goc" /\ task[k].rec = rec }
       IN  task' = [k \in TaskIds |->
                      IF k = t
                      THEN [IdleTask EXCEPT !.op = "goc", !.pc = "goc_db",
                                            !.site = "api", !.rec = rec,
                                            !.overlap = (others # {})]
                      ELSE IF k \in others THEN [task[k] EXCEPT !.overlap = TRUE]
                      ELSE task[k]]
    /\ UNCHANGED <<cfgVars, runningProcesses, dbVars, extVars, queueVars>>

\* trustScoreDb.getOrCreateRecommender resolves; the mirror call is awaited
\* when there is a backend
GetOrCreateDb(t) ==
    /\ task[t].pc = "goc_db"
    /\ dbRecommenders' = StoreRecommender(dbRecommenders, task[t].rec)
    /\ LET r == [task[t] EXCEPT
                   !.retId = task[t].rec,
                   !.created = @ \/ dbRecommenders'[task[t].rec] # dbRecommenders[task[t].rec],
                   !.mirrored = @ \/ backendOn]
       IN  IF backendOn
           THEN /\ beRecCalls' = beRecCalls + 1
                /\ task' = [task EXCEPT ![t] = [r EXCEPT !.pc = "goc_be"]]
           ELSE /\ beRecCalls' = beRecCalls
                /\ task' = [task EXCEPT ![t] = AfterGetOrCreate(r)]
    /\ UNCHANGED <<cfgVars, runningProcesses, dbPerf, dbBalance, dbTrades,
                   dbTokenRecs, dbTx, sonarStarts, sonarStops, beTradeCalls,
                   callVars, queueVars>>

\* backend.getOrCreateRecommender resolves or rejects: either way swallowed
GetOrCreateBackend(t) ==
    /\ task[t].pc = "goc_be"
    /\ task' = [task EXCEPT ![t] = AfterGetOrCreate(task[t])]
    /\ UNCHANGED <<cfgVars, runningProcesses, dbVars, extVars, callVars, queueVars>>

\* ------------------------------------------------------------------------
\* SimulationSellingService.processTokenPerformance

\* processTokenPerformance has returned: its caller goes on
AfterProcessTokenPerformance(r) ==
    IF r.op = "buy"
    THEN IF backendOn THEN [r EXCEPT !.pc = "buy_be"]
         ELSE Return(r, "returned")
    ELSE Return(r, "returned")

\* the synchronous start of processTokenPerformance: return when the token is
\* in the running set, else await getTokenPerformance
EnterProcessTokenPerformance(r) ==
    IF r.token \in runningProcesses
    THEN AfterProcessTokenPerformance(r)
    ELSE [r EXCEPT !.pc = "ptp_getTP"]

\* processTokenPerformance is called
ProcessTokenPerformanceCall(t, token, rec) ==
    /\ Callable(t)
    /\ sCalls < MaxSellCalls
    /\ sCalls' = sCalls + 1
    /\ sBuys' = sBuys
    /\ LET others == { k \in TaskIds \ {t} :
                         InFlight(k) /\ task[k].op = "ptp" /\ task[k].token = token }
           r == EnterProcessTokenPerformance(
                    [IdleTask EXCEPT !.op = "ptp", !.token = token, !.rec = rec,
                                     !.overlap = (others # {})])
       IN  task' = [k \in TaskIds |->
                      IF k = t THEN r
                      ELSE IF k \in others THEN [task[k] EXCEPT !.overlap = TRUE]
                      ELSE task[k]]
    /\ UNCHANGED <<cfgVars, runningProcesses, dbVars, extVars, queueVars>>

\* a variant that enters the token in the running set when startProcess is
\* sent, before its result is known
ProcessTokenPerformanceReadMarksRunning(t) ==
    /\ task[t].pc = "ptp_getTP"
    /\ IF task[t].token \in dbPerf /\ sonarOn
       THEN /\ sonarStarts' = [sonarStarts EXCEPT ![task[t].token] = @ + 1]
            /\ beTradeCalls' = beTradeCalls
            /\ task' = [task EXCEPT ![t] =
                          [task[t] EXCEPT !.pc = "ptp_start", !.started = TRUE]]
       ELSE /\ sonarStarts' = sonarStarts
            /\ LET r == AfterProcessTokenPerformance(task[t])
               IN  /\ task' = [task EXCEPT ![t] = r]
                   /\ beTradeCalls' = IF r.pc = "buy_be" THEN beTradeCalls + 1
                                      ELSE beTradeCalls
    /\ runningProcesses' = runningProcesses \cup {task[t].token}
    /\ UNCHANGED <<cfgVars, dbVars, sonarStops, beRecCalls,
                   callVars, queueVars>>

\* getTokenPerformance resolves: return when there is none, else startProcess
\* is sent when there is a process backend
ProcessTokenPerformanceRead(t) ==
    /\ task[t].pc = "ptp_getTP"
    /\ IF task[t].token \in dbPerf /\ sonarOn
       THEN /\ sonarStarts' = [sonarStarts EXCEPT ![task[t].token] = @ + 1]
            /\ beTradeCalls' = beTradeCalls
            /\ task' = [task EXCEPT ![t] =
                          [task[t] EXCEPT !.pc = "ptp_start", !.started = TRUE]]
       ELSE /\ sonarStarts' = sonarStarts
            /\ LET r == AfterProcessTokenPerformance(task[t])
               IN  /\ task' = [task EXCEPT ![t] = r]
                   /\ beTradeCalls' = IF r.pc = "buy_be" THEN beTradeCalls + 1
                                      ELSE beTradeCalls
    /\ UNCHANGED <<cfgVars, runningProcesses, dbVars, sonarStops, beRecCalls,
                   callVars, queueVars>>

\* startProcess resolves: with the backend's result (ok), or with null after
\* Sonar.startProcess caught a failure
ProcessTokenPerformanceStarted(t, ok) ==
    /\ task[t].pc = "ptp_start"
    /\ runningProcesses' = IF ok THEN runningProcesses \cup {task[t].token}
                           ELSE runningProcesses
    /\ LET r == AfterProcessTokenPerformance(task[t])
       IN  /\ task' = [task EXCEPT ![t] = r]
           /\ beTradeCalls' = IF r.pc = "buy_be" THEN beTradeCalls + 1
                              ELSE beTradeCalls
    /\ UNCHANGED <<cfgVars, dbVars, sonarStarts, sonarStops, beRecCalls,
                   callVars, queueVars>>

\* ------------------------------------------------------------------------
\* SimulationSellingService.startListeners and processTokenPerformances

ScanPending(r) == { tok \in Tokens : r.scan[tok] \in {"rec", "start"} }

\* Promise.all settles once no mapper is suspended; it rejects when one threw
ScanSettle(r) ==
    IF ScanPending(r) # {} THEN r
    ELSE Return(r, IF \E tok \in Tokens : r.scan[tok] = "threw"
                   THEN "threw" ELSE "returned")

\* startListeners is called
ScanCall(t) ==
    /\ Callable(t)
    /\ sCalls < MaxSellCalls
    /\ sCalls' = sCalls + 1
    /\ sBuys' = sBuys
    /\ task' = [task EXCEPT ![t] = [IdleTask EXCEPT !.op = "scan", !.pc = "scan_list"]]
    /\ UNCHANGED <<cfgVars, runningProcesses, dbVars, extVars, queueVars>>

\* getAllTokenPerformancesWithBalance resolves; the tokens not running are
\* mapped, each mapper awaiting getRecommendationsByToken
ScanList(t) ==
    /\ task[t].pc = "scan_list"
    /\ LET withBalance == { tok \in dbPerf : dbBalance[tok] # 0 }
           picked == withBalance \ runningProcesses
       IN  task' = [task EXCEPT ![t] =
                      ScanSettle([task[t] EXCEPT
                          !.pc = "scan_all",
                          !.picked = picked,
                          !.scan = [tok \in Tokens |->
                                      IF tok \in picked THEN "rec" ELSE "none"]])]
    /\ UNCHANGED <<cfgVars, runningProcesses, dbVars, extVars, callVars, queueVars>>

\* getRecommendationsByToken resolves for one token: reading recommenderId of
\* the first row throws when there is none, else startProcess is sent when
\* there is a process backend
ScanRecommendation(t, tok) ==
    /\ task[t].pc = "scan_all"
    /\ task[t].scan[tok] = "rec"
    /\ IF dbTokenRecs[tok] = <<>>
       THEN /\ task' = [task EXCEPT ![t] =
                          ScanSettle([task[t] EXCEPT !.scan[tok] = "threw"])]
            /\ sonarStarts' = sonarStarts
       ELSE IF sonarOn
       THEN /\ task' = [task EXCEPT ![t] =
                          [task[t] EXCEPT !.scan[tok] = "start",
                                          !.startedFor = @ \cup {tok}]]
            /\ sonarStarts' = [sonarStarts EXCEPT ![tok] = @ + 1]
       ELSE /\ task' = [task EXCEPT ![t] =
                          ScanSettle([task[t] EXCEPT !.scan[tok] = "done"])]
            /\ sonarStarts' = sonarStarts
    /\ UNCHANGED <<cfgVars, runningProcesses, dbVars, sonarStops, beRecCalls,
                   beTradeCalls, callVars, queueVars>>

\* startProcess resolves for one token of the scan
ScanStarted(t, tok, ok) ==
    /\ task[t].pc = "scan_all"
    /\ task[t].scan[tok] = "start"
    /\ runningProcesses' = IF ok THEN runningProcesses \cup {tok}
                           ELSE runningProcesses
    /\ task' = [task EXCEPT ![t] = ScanSettle([task[t] EXCEPT !.scan[tok] = "done"])]
    /\ UNCHANGED <<cfgVars, dbVars, extVars, callVars, queueVars>>

\* ------------------------------------------------------------------------
\* TrustScoreManager.createTradePerformance

BuyTimestamps == {1}

\* createTradePerformance is called
CreateTradeCall(t, token, rec, amount, sim, ts) ==
    /\ Callable(t)
    /\ sCalls < MaxSellCalls
    /\ sBuys < MaxBuys
    /\ sCalls' = sCalls + 1
    /\ sBuys' = sBuys + 1
    /\ task' = [task EXCEPT ![t] =
                  [IdleTask EXCEPT !.op = "buy", !.pc = "goc_db", !.site = "buy",
                                   !.token = token, !.rec = rec, !.amount = amount,
                                   !.sim = sim, !.buyTs = ts]]
    /\ UNCHANGED <<cfgVars, runningProcesses, dbVars, extVars, queueVars>>

\* buy_value_usd = data.buyAmount * processedData.tradeData.price
BuyValueUsd(buyAmount, price) == buyAmount * price

\* tokensBalance = buy_value_usd / tokenPrice
TokensBalance(buyAmount, price) == BuyValueUsd(buyAmount, price) \div price

\* getProcessedTokenData, fetchPrices and fetchTokenTradeData resolve with the
\* token's price, or one of them rejects; the three only read market data
CreateTradeFetch(t, ok, price) ==
    /\ task[t].pc = "buy_fetch"
    /\ task' = [task EXCEPT ![t] =
                  IF ok THEN [task[t] EXCEPT !.pc = "buy_upsert", !.price = price]
                  ELSE Return(task[t], "threw")]
    /\ UNCHANGED <<cfgVars, runningProcesses, dbVars, extVars, callVars, queueVars>>

\* upsertTokenPerformance resolves: the row carries balance tokensBalance
CreateTradeUpsert(t) ==
    /\ task[t].pc = "buy_upsert"
    /\ dbPerf' = dbPerf \cup {task[t].token}
    /\ dbBalance' = [dbBalance EXCEPT ![task[t].token] =
                        TokensBalance(task[t].amount, task[t].price)]
    /\ task' = [task EXCEPT ![t] = [task[t] EXCEPT !.pc = "buy_trade"]]
    /\ UNCHANGED <<cfgVars, runningProcesses, dbRecommenders, dbTrades,
                   dbTokenRecs, dbTx, extVars, callVars, queueVars>>

\* addTradePerformance resolves
CreateTradeAdd(t) ==
    /\ task[t].pc = "buy_trade"
    /\ dbTrades' = Append(dbTrades,
                          [token |-> task[t].token, rec |-> task[t].rec,
                           sim |-> task[t].sim, buyTs |-> task[t].buyTs,
                           buyAmount |-> task[t].amount,
                           buyPrice |-> task[t].price,
                           buyValue |-> BuyValueUsd(task[t].amount, task[t].price),
                           sells |-> 0, sellAmount |-> 0, sellPrice |-> 0,
                           sellValue |-> 0, profitUsd |-> 0, profitPercent |-> 0])
    /\ task' = [task EXCEPT ![t] = [task[t] EXCEPT !.pc = "buy_rec"]]
    /\ UNCHANGED <<cfgVars, runningProcesses, dbRecommenders, dbPerf, dbBalance,
                   dbTokenRecs, dbTx, extVars, callVars, queueVars>>

\* the buy has reached the call of processTokenPerformance
CreateTradeProcess(r) == EnterProcessTokenPerformance(r)

CreateTradeRecommendationThenProcess(t) ==
    /\ task[t].pc = "buy_rec"
    /\ dbTokenRecs' = [dbTokenRecs EXCEPT ![task[t].token] = Append(@, task[t].rec)]
    /\ LET r == CreateTradeProcess(task[t])
       IN  /\ task' = [task EXCEPT ![t] = r]
           /\ beTradeCalls' = IF r.pc = "buy_be" THEN beTradeCalls + 1
                              ELSE beTradeCalls
    /\ UNCHANGED <<cfgVars, runningProcesses, dbRecommenders, dbPerf, dbBalance,
                   dbTrades, dbTx, sonarStarts, sonarStops, beRecCalls, callVars,
                   queueVars>>

\* addTokenRecommendation resolves
CreateTradeRecommendation(t) ==
    /\ task[t].pc = "buy_rec"
    /\ dbTokenRecs' = [dbTokenRecs EXCEPT ![task[t].token] = Append(@, task[t].rec)]
    /\ LET r == IF task[t].sim THEN [task[t] EXCEPT !.pc = "buy_setbal"]
                ELSE CreateTradeProcess(task[t])
       IN  /\ task' = [task EXCEPT ![t] = r]
           /\ beTradeCalls' = IF r.pc = "buy_be" THEN beTradeCalls + 1
                              ELSE beTradeCalls
    /\ UNCHANGED <<cfgVars, runningProcesses, dbRecommenders, dbPerf, dbBalance,
                   dbTrades, dbTx, sonarStarts, sonarStops, beRecCalls, callVars,
                   queueVars>>

\* updateTokenBalance resolves (simulation only)
CreateTradeBalance(t) ==
    /\ task[t].pc = "buy_setbal"
    /\ dbBalance' = [dbBalance EXCEPT ![task[t].token] =
                        TokensBalance(task[t].amount, task[t].price)]
    /\ task' = [task EXCEPT ![t] = [task[t] EXCEPT !.pc = "buy_tx"]]
    /\ UNCHANGED <<cfgVars, runningProcesses, dbRecommenders, dbPerf, dbTrades,
                   dbTokenRecs, dbTx, extVars, callVars, queueVars>>

\* addTransaction resolves (simulation only)
CreateTradeTransaction(t) ==
    /\ task[t].pc = "buy_tx"
    /\ dbTx' = [dbTx EXCEPT ![task[t].token].buy = @ + 1]
    /\ LET r == CreateTradeProcess(task[t])
       IN  /\ task' = [task EXCEPT ![t] = r]
           /\ beTradeCalls' = IF r.pc = "buy_be" THEN beTradeCalls + 1
                              ELSE beTradeCalls
    /\ UNCHANGED <<cfgVars, runningProcesses, dbRecommenders, dbPerf, dbBalance,
                   dbTrades, dbTokenRecs, sonarStarts, sonarStops, beRecCalls,
                   callVars, queueVars>>

\* backend.createTradePerformance resolves or rejects; nothing catches it
CreateTradeBackend(t, ok) ==
    /\ task[t].pc = "buy_be"
    /\ task' = [task EXCEPT ![t] =
                  Return(task[t], IF ok THEN "returned" ELSE "threw")]
    /\ UNCHANGED <<cfgVars, runningProcesses, dbVars, extVars, callVars, queueVars>>

\* ------------------------------------------------------------------------
\* TrustScoreManager.updateSellDetails, and executeSellDecision around it

\* processMessage goes on after executeSellDecision returned: the token
\* leaves the running set
FinishProcessMessage(r) == Return(r, r.out)

\* updateSellDetails has returned or thrown.  A direct caller gets the
\* outcome; executeSellDecision catches a throw and returns, else awaits
\* getTokenBalance
AfterUpdateSellDetails(r, outcome) ==
    IF r.op = "sell" THEN Return(r, outcome)
    ELSE IF outcome = "threw"
    THEN FinishProcessMessage([r EXCEPT !.out = outcome])
    ELSE [r EXCEPT !.pc = "esd_balance", !.out = outcome]

\* the running set after a step that took the task from r to its next state q
RunningAfter(r, q) ==
    IF r.op = "msg" /\ q.pc = "done" THEN runningProcesses \ {r.token}
    ELSE runningProcesses

\* updateSellDetails is called by a user of the trust score engine
UpdateSellDetailsCall(t, token, rec, amount, sim) ==
    /\ Callable(t)
    /\ sCalls < MaxSellCalls
    /\ sCalls' = sCalls + 1
    /\ sBuys' = sBuys
    /\ task' = [task EXCEPT ![t] =
                  [IdleTask EXCEPT !.op = "sell", !.pc = "goc_db", !.site = "usd",
                                   !.token = token, !.rec = rec, !.amount = amount,
                                   !.sim = sim]]
    /\ UNCHANGED <<cfgVars, runningProcesses, dbVars, extVars, queueVars>>

\* profitUsd = valueUsd - trade.buy_value_usd
ProfitOverBuyAmount(valueUsd, trade) == valueUsd - trade.buyAmount

ProfitUsd(valueUsd, trade) == valueUsd - trade.buyValue

\* profitPercent = (profitUsd / trade.buy_value_usd) * 100, in hundredths of
\* a percent
ProfitPercent(profitUsd, trade) == (profitUsd * 10000) \div trade.buyValue

\* sellDetailsData of updateSellDetails: price in cents, values in cents
SellDetailsData(amount, price, trade) ==
    LET valueUsd == amount * price
        profitUsd == ProfitUsd(valueUsd, trade)
    IN  [price |-> price, amount |-> amount, valueUsd |-> valueUsd,
         profitUsd |-> profitUsd,
         profitPercent |-> ProfitPercent(profitUsd, trade)]

\* getProcessedTokenData and fetchPrices resolve with the token's price, or
\* one of them rejects; the two only read market data
UpdateSellDetailsFetch(t, ok, price) ==
    /\ task[t].pc = "usd_fetch"
    /\ LET q == IF ok THEN [task[t] EXCEPT !.pc = "usd_trade", !.price = price]
                ELSE AfterUpdateSellDetails(task[t], "threw")
       IN  /\ task' = [task EXCEPT ![t] = q]
           /\ runningProcesses' = RunningAfter(task[t], q)
    /\ UNCHANGED <<cfgVars, dbVars, extVars, callVars, queueVars>>

\* a sell that goes on to updateTradePerformanceOnSell whether or not the
\* lookup found a trade
SellDetailsAfterLookupUnguarded(r, trades, i) ==
    [r EXCEPT !.pc = "usd_update",
              !.trade = IF i = 0 THEN <<>> ELSE <<trades[i]>>,
              !.buyTs = IF i = 0 THEN 0 ELSE trades[i].buyTs]

\* `if (!trade) return`: a sell whose lookup found no trade (i = 0) returns,
\* any other keeps the row it found and goes on to the update
SellDetailsAfterLookup(r, trades, i) ==
    IF i = 0 THEN AfterUpdateSellDetails(r, "noTrade")
    ELSE [r EXCEPT !.pc = "usd_update",
                   !.trade = <<trades[i]>>,
                   !.buyTs = trades[i].buyTs]

\* getLatestTradePerformance resolves: return undefined when there is no
\* trade, else await updateTradePerformanceOnSell
UpdateSellDetailsTrade(t) ==
    /\ task[t].pc = "usd_trade"
    /\ LET i == LatestTrade(dbTrades, task[t].token, task[t].rec, task[t].sim)
       IN  task' = [task EXCEPT ![t] = SellDetailsAfterLookup(task[t], dbTrades, i)]
    /\ UNCHANGED <<cfgVars, runningProcesses, dbVars, extVars, callVars, queueVars>>

\* updateTradePerformanceOnSell resolves
UpdateSellDetailsUpdate(t) ==
    /\ task[t].pc = "usd_update"
    /\ dbTrades' = UpdateTradeOnSell(dbTrades, task[t].token, task[t].rec,
                                     task[t].buyTs, task[t].sim,
                                     SellDetailsData(task[t].amount, task[t].price,
                                                     task[t].trade[1]))
    /\ task' = [task EXCEPT ![t] =
                  IF task[t].sim THEN [task[t] EXCEPT !.pc = "usd_getbal"]
                  ELSE AfterUpdateSellDetails(task[t], "sold")]
    /\ UNCHANGED <<cfgVars, runningProcesses, dbRecommenders, dbPerf, dbBalance,
                   dbTokenRecs, dbTx, extVars, callVars, queueVars>>

\* getTokenBalance resolves (simulation only)
UpdateSellDetailsOldBalance(t) ==
    /\ task[t].pc = "usd_getbal"
    /\ task' = [task EXCEPT ![t] =
                  [task[t] EXCEPT !.pc = "usd_setbal",
                                  !.old = dbBalance[task[t].token]]]
    /\ UNCHANGED <<cfgVars, runningProcesses, dbVars, extVars, callVars, queueVars>>

\* updateTokenBalance(oldBalance - amount) resolves (simulation only)
UpdateSellDetailsBalance(t) ==
    /\ task[t].pc = "usd_setbal"
    /\ dbBalance' = [dbBalance EXCEPT ![task[t].token] = task[t].old - task[t].amount]
    /\ task' = [task EXCEPT ![t] = [task[t] EXCEPT !.pc = "usd_tx"]]
    /\ UNCHANGED <<cfgVars, runningProcesses, dbRecommenders, dbPerf, dbTrades,
                   dbTokenRecs, dbTx, extVars, callVars, queueVars>>

\* addTransaction resolves (simulation only); updateSellDetails returns
UpdateSellDetailsTransaction(t) ==
    /\ task[t].pc = "usd_tx"
    /\ dbTx' = [dbTx EXCEPT ![task[t].token].sell = @ + 1]
    /\ task' = [task EXCEPT ![t] = AfterUpdateSellDetails(task[t], "sold")]
    /\ UNCHANGED <<cfgVars, runningProcesses, dbRecommenders, dbPerf, dbBalance,
                   dbTrades, dbTokenRecs, extVars, callVars, queueVars>>

ZeroBalanceRemovalNever(balance, token) == {}

\* if (balance === 0) this.runningProcesses.delete(tokenAddress)
ZeroBalanceRemoval(balance, token) == IF balance = 0 THEN {token} ELSE {}

\* executeSellDecision: getTokenBalance resolves; the token leaves the running
\* set at balance 0; stopProcess is sent when there is a process backend
ExecuteSellBalance(t) ==
    /\ task[t].pc = "esd_balance"
    /\ LET q == IF sonarOn THEN [task[t] EXCEPT !.pc = "esd_stop"]
                ELSE FinishProcessMessage(task[t])
           zero == ZeroBalanceRemoval(dbBalance[task[t].token], task[t].token)
       IN  /\ task' = [task EXCEPT ![t] = q]
           /\ runningProcesses' = RunningAfter(task[t], q) \ zero
           /\ sonarStops' = IF sonarOn
                            THEN [sonarStops EXCEPT ![task[t].token] = @ + 1]
                            ELSE sonarStops
    /\ UNCHANGED <<cfgVars, dbVars, sonarStarts, beRecCalls, beTradeCalls,
                   callVars, queueVars>>

StopProcessOutcomeFatal(r, ok) == IF ok THEN r.out ELSE "threw"

\* what executeSellDecision leaves once stopProcess has settled: a rejection
\* is caught and logged by its catch block, the sell's outcome stands
StopProcessOutcome(r, ok) == r.out

\* stopProcess resolves (ok), or rejects and executeSellDecision catches it
ExecuteSellStopped(t, ok) ==
    /\ task[t].pc = "esd_stop"
    /\ LET q == FinishProcessMessage([task[t] EXCEPT !.out = StopProcessOutcome(task[t], ok)])
       IN  /\ task' = [task EXCEPT ![t] = q]
           /\ runningProcesses' = RunningAfter(task[t], q)
    /\ UNCHANGED <<cfgVars, dbVars, extVars, callVars, queueVars>>

\* ------------------------------------------------------------------------
\* the queue consumer and processMessage

Unparseable == [token |-> "", amount |-> 0, rec |-> ""]
Messages ==
    [token : TradedTokens, amount : SellAmounts, rec : RecIds]
    \cup {Unparseable}

AcksNeverSent(acks, id) == acks

\* this.amqpChannel.ack(msg), the last statement of the consume callback
AcksAfterDelivery(acks, id) == [acks EXCEPT ![id] = @ + 1]

\* the consume callback runs for a delivered message: processMessage is
\* called and runs up to its first await (or to its catch, when JSON.parse
\* throws), then the message is acknowledged
Deliver(t, m) ==
    /\ Callable(t)
    /\ sCalls < MaxSellCalls
    /\ qDelivered < MaxMessages
    /\ sCalls' = sCalls + 1
    /\ sBuys' = sBuys
    /\ qDelivered' = qDelivered + 1
    /\ qRuns' = [qRuns EXCEPT ![qDelivered + 1] = @ + 1]
    /\ qAcks' = AcksAfterDelivery(qAcks, qDelivered + 1)
    /\ task' = [task EXCEPT ![t] =
                  IF m = Unparseable
                  THEN Return([IdleTask EXCEPT !.op = "msg", !.msg = qDelivered + 1],
                              "parseError")
                  ELSE [IdleTask EXCEPT !.op = "msg", !.pc = "pm_getTP",
                                        !.msg = qDelivered + 1, !.token = m.token,
                                        !.rec = m.rec, !.amount = m.amount,
                                        !.sim = TRUE]]
    /\ UNCHANGED <<cfgVars, runningProcesses, dbVars, extVars>>

\* processMessage: getTokenPerformance resolves; return when there is none,
\* else getOrCreateRecommender is called
ProcessMessageRead(t) ==
    /\ task[t].pc = "pm_getTP"
    /\ task' = [task EXCEPT ![t] =
                  IF task[t].token \in dbPerf
                  THEN [task[t] EXCEPT !.pc = "goc_db", !.site = "pm"]
                  ELSE Return(task[t], "noPerformance")]
    /\ UNCHANGED <<cfgVars, runningProcesses, dbVars, extVars, callVars, queueVars>>

\* ------------------------------------------------------------------------

SellStart(configured) ==
    /\ sonarOn \in configured
    /\ backendOn \in configured
    /\ runningProcesses = {}
    /\ dbRecommenders = [r \in RecIds |-> 0]
    /\ dbPerf = {}
    /\ dbBalance = [tok \in Tokens |-> 0]
    /\ dbTrades = <<>>
    /\ dbTokenRecs = [tok \in Tokens |-> <<>>]
    /\ dbTx = [tok \in Tokens |-> [buy |-> 0, sell |-> 0]]
    /\ sonarStarts = [tok \in Tokens |-> 0]
    /\ sonarStops = [tok \in Tokens |-> 0]
    /\ beRecCalls = 0
    /\ beTradeCalls = 0
    /\ task = [t \in TaskIds |-> IdleTask]
    /\ sCalls = 0
    /\ sBuys = 0
    /\ qDelivered = 0
    /\ qAcks = [i \in 1..MaxMessages |-> 0]
    /\ qRuns = [i \in 1..MaxMessages |-> 0]

\* the backends are optional: each is configured or not
SellInit == SellStart(BOOLEAN)

\* a process that never trades
SellIdle == SellStart({FALSE})

NextSell ==
    \/ \E t \in TaskIds, rec \in RecIds :
          GetOrCreateCall(t, rec) /\ UNCHANGED <<httpVars, cacheVars, metricsVars, holderVars, flagVars, scoreVars, pairVars, recsVars, portVars, reportVars>>
    \/ \E t \in TaskIds :
          GetOrCreateDb(t) /\ UNCHANGED <<httpVars, cacheVars, metricsVars, holderVars, flagVars, scoreVars, pairVars, recsVars, portVars, reportVars>>
    \/ \E t \in TaskIds :
          GetOrCreateBackend(t) /\ UNCHANGED <<httpVars, cacheVars, metricsVars, holderVars, flagVars, scoreVars, pairVars, recsVars, portVars, reportVars>>
    \/ \E t \in TaskIds, token \in Tokens, rec \in Buyers :
          ProcessTokenPerformanceCall(t, token, rec)
          /\ UNCHANGED <<httpVars, cacheVars, metricsVars, holderVars, flagVars, scoreVars, pairVars, recsVars, portVars, reportVars>>
    \/ \E t \in TaskIds :
          ProcessTokenPerformanceRead(t) /\ UNCHANGED <<httpVars, cacheVars, metricsVars, holderVars, flagVars, scoreVars, pairVars, recsVars, portVars, reportVars>>
    \/ \E t \in TaskIds, ok \in BOOLEAN :
          ProcessTokenPerformanceStarted(t, ok)
          /\ UNCHANGED <<httpVars, cacheVars, metricsVars, holderVars, flagVars, scoreVars, pairVars, recsVars, portVars, reportVars>>
    \/ \E t \in TaskIds :
          ScanCall(t) /\ UNCHANGED <<httpVars, cacheVars, metricsVars, holderVars, flagVars, scoreVars, pairVars, recsVars, portVars, reportVars>>
    \/ \E t \in TaskIds :
          ScanList(t) /\ UNCHANGED <<httpVars, cacheVars, metricsVars, holderVars, flagVars, scoreVars, pairVars, recsVars, portVars, reportVars>>
    \/ \E t \in TaskIds, tok \in Tokens :
          ScanRecommendation(t, tok) /\ UNCHANGED <<httpVars, cacheVars, metricsVars, holderVars, flagVars, scoreVars, pairVars, recsVars, portVars, reportVars>>
    \/ \E t \in TaskIds, tok \in Tokens, ok \in BOOLEAN :
          ScanStarted(t, tok, ok) /\ UNCHANGED <<httpVars, cacheVars, metricsVars, holderVars, flagVars, scoreVars, pairVars, recsVars, portVars, reportVars>>
    \/ \E t \in TaskIds, token \in TradedTokens, rec \in Buyers, amount \in BuyAmounts,
          sim \in BOOLEAN, ts \in BuyTimestamps :
          CreateTradeCall(t, token, rec, amount, sim, ts)
          /\ UNCHANGED <<httpVars, cacheVars, metricsVars, holderVars, flagVars, scoreVars, pairVars, recsVars, portVars, reportVars>>
    \/ \E t \in TaskIds, ok \in BOOLEAN, price \in MarketPrices :
          CreateTradeFetch(t, ok, price) /\ UNCHANGED <<httpVars, cacheVars, metricsVars, holderVars, flagVars, scoreVars, pairVars, recsVars, portVars, reportVars>>
    \/ \E t \in TaskIds :
          CreateTradeUpsert(t) /\ UNCHANGED <<httpVars, cacheVars, metricsVars, holderVars, flagVars, scoreVars, pairVars, recsVars, portVars, reportVars>>
    \/ \E t \in TaskIds :
          CreateTradeAdd(t) /\ UNCHANGED <<httpVars, cacheVars, metricsVars, holderVars, flagVars, scoreVars, pairVars, recsVars, portVars, reportVars>>
    \/ \E t \in TaskIds :
          CreateTradeRecommendation(t) /\ UNCHANGED <<httpVars, cacheVars, metricsVars, holderVars, flagVars, scoreVars, pairVars, recsVars, portVars, reportVars>>
    \/ \E t \in TaskIds :
          CreateTradeBalance(t) /\ UNCHANGED <<httpVars, cacheVars, metricsVars, holderVars, flagVars, scoreVars, pairVars, recsVars, portVars, reportVars>>
    \/ \E t \in TaskIds :
          CreateTradeTransaction(t) /\ UNCHANGED <<httpVars, cacheVars, metricsVars, holderVars, flagVars, scoreVars, pairVars, recsVars, portVars, reportVars>>
    \/ \E t \in TaskIds, ok \in BOOLEAN :
          CreateTradeBackend(t, ok) /\ UNCHANGED <<httpVars, cacheVars, metricsVars, holderVars, flagVars, scoreVars, pairVars, recsVars, portVars, reportVars>>
    \/ \E t \in TaskIds, token \in TradedTokens, rec \in RecIds,
          amount \in DirectSellAmounts, sim \in BOOLEAN :
          UpdateSellDetailsCall(t, token, rec, amount, sim)
          /\ UNCHANGED <<httpVars, cacheVars, metricsVars, holderVars, flagVars, scoreVars, pairVars, recsVars, portVars, reportVars>>
    \/ \E t \in TaskIds, ok \in BOOLEAN, price \in MarketPrices :
          UpdateSellDetailsFetch(t, ok, price) /\ UNCHANGED <<httpVars, cacheVars, metricsVars, holderVars, flagVars, scoreVars, pairVars, recsVars, portVars, reportVars>>
    \/ \E t \in TaskIds :
          UpdateSellDetailsTrade(t) /\ UNCHANGED <<httpVars, cacheVars, metricsVars, holderVars, flagVars, scoreVars, pairVars, recsVars, portVars, reportVars>>
    \/ \E t \in TaskIds :
          UpdateSellDetailsUpdate(t) /\ UNCHANGED <<httpVars, cacheVars, metricsVars, holderVars, flagVars, scoreVars, pairVars, recsVars, portVars, reportVars>>
    \/ \E t \in TaskIds :
          UpdateSellDetailsOldBalance(t) /\ UNCHANGED <<httpVars, cacheVars, metricsVars, holderVars, flagVars, scoreVars, pairVars, recsVars, portVars, reportVars>>
    \/ \E t \in TaskIds :
          UpdateSellDetailsBalance(t) /\ UNCHANGED <<httpVars, cacheVars, metricsVars, holderVars, flagVars, scoreVars, pairVars, recsVars, portVars, reportVars>>
    \/ \E t \in TaskIds :
          UpdateSellDetailsTransaction(t) /\ UNCHANGED <<httpVars, cacheVars, metricsVars, holderVars, flagVars, scoreVars, pairVars, recsVars, portVars, reportVars>>
    \/ \E t \in TaskIds :
          ExecuteSellBalance(t) /\ UNCHANGED <<httpVars, cacheVars, metricsVars, holderVars, flagVars, scoreVars, pairVars, recsVars, portVars, reportVars>>
    \/ \E t \in TaskIds, ok \in BOOLEAN :
          ExecuteSellStopped(t, ok) /\ UNCHANGED <<httpVars, cacheVars, metricsVars, holderVars, flagVars, scoreVars, pairVars, recsVars, portVars, reportVars>>
    \/ \E t \in TaskIds, m \in Messages :
          Deliver(t, m) /\ UNCHANGED <<httpVars, cacheVars, metricsVars, holderVars, flagVars, scoreVars, pairVars, recsVars, portVars, reportVars>>
    \/ \E t \in TaskIds :
          ProcessMessageRead(t) /\ UNCHANGED <<httpVars, cacheVars, metricsVars, holderVars, flagVars, scoreVars, pairVars, recsVars, portVars, reportVars>>

\* ------------------------------------------------------------------------
\* buys and direct sells of one position at moving prices

\* tokens bought, tokens sold, and the token's prices in cents
TradeBuyAmounts == {200}
TradeSellAmounts == {200}
TradePrices == {25, 50, 75}

NextTrade ==
    \/ \E t \in TaskIds, token \in TradedTokens, rec \in Buyers,
          amount \in TradeBuyAmounts, sim \in BOOLEAN, ts \in BuyTimestamps :
          CreateTradeCall(t, token, rec, amount, sim, ts) /\ UNCHANGED <<httpVars, cacheVars, metricsVars, holderVars, flagVars, scoreVars, pairVars, recsVars, portVars, reportVars>>
    \/ \E t \in TaskIds, token \in TradedTokens, rec \in Buyers,
          amount \in TradeSellAmounts, sim \in BOOLEAN :
          UpdateSellDetailsCall(t, token, rec, amount, sim) /\ UNCHANGED <<httpVars, cacheVars, metricsVars, holderVars, flagVars, scoreVars, pairVars, recsVars, portVars, reportVars>>
    \/ \E t \in TaskIds : GetOrCreateDb(t) /\ UNCHANGED <<httpVars, cacheVars, metricsVars, holderVars, flagVars, scoreVars, pairVars, recsVars, portVars, reportVars>>
    \/ \E t \in TaskIds : GetOrCreateBackend(t) /\ UNCHANGED <<httpVars, cacheVars, metricsVars, holderVars, flagVars, scoreVars, pairVars, recsVars, portVars, reportVars>>
    \/ \E t \in TaskIds, ok \in BOOLEAN, price \in TradePrices :
          CreateTradeFetch(t, ok, price) /\ UNCHANGED <<httpVars, cacheVars, metricsVars, holderVars, flagVars, scoreVars, pairVars, recsVars, portVars, reportVars>>
    \/ \E t \in TaskIds : CreateTradeUpsert(t) /\ UNCHANGED <<httpVars, cacheVars, metricsVars, holderVars, flagVars, scoreVars, pairVars, recsVars, portVars, reportVars>>
    \/ \E t \in TaskIds : CreateTradeAdd(t) /\ UNCHANGED <<httpVars, cacheVars, metricsVars, holderVars, flagVars, scoreVars, pairVars, recsVars, portVars, reportVars>>
    \/ \E t \in TaskIds : CreateTradeRecommendation(t) /\ UNCHANGED <<httpVars, cacheVars, metricsVars, holderVars, flagVars, scoreVars, pairVars, recsVars, portVars, reportVars>>
    \/ \E t \in TaskIds : CreateTradeBalance(t) /\ UNCHANGED <<httpVars, cacheVars, metricsVars, holderVars, flagVars, scoreVars, pairVars, recsVars, portVars, reportVars>>
    \/ \E t \in TaskIds : CreateTradeTransaction(t) /\ UNCHANGED <<httpVars, cacheVars, metricsVars, holderVars, flagVars, scoreVars, pairVars, recsVars, portVars, reportVars>>
    \/ \E t \in TaskIds : ProcessTokenPerformanceRead(t) /\ UNCHANGED <<httpVars, cacheVars, metricsVars, holderVars, flagVars, scoreVars, pairVars, recsVars, portVars, reportVars>>
    \/ \E t \in TaskIds, ok \in BOOLEAN :
          ProcessTokenPerformanceStarted(t, ok) /\ UNCHANGED <<httpVars, cacheVars, metricsVars, holderVars, flagVars, scoreVars, pairVars, recsVars, portVars, reportVars>>
    \/ \E t \in TaskIds, ok \in BOOLEAN : CreateTradeBackend(t, ok) /\ UNCHANGED <<httpVars, cacheVars, metricsVars, holderVars, flagVars, scoreVars, pairVars, recsVars, portVars, reportVars>>
    \/ \E t \in TaskIds, ok \in BOOLEAN, price \in TradePrices :
          UpdateSellDetailsFetch(t, ok, price) /\ UNCHANGED <<httpVars, cacheVars, metricsVars, holderVars, flagVars, scoreVars, pairVars, recsVars, portVars, reportVars>>
    \/ \E t \in TaskIds : UpdateSellDetailsTrade(t) /\ UNCHANGED <<httpVars, cacheVars, metricsVars, holderVars, flagVars, scoreVars, pairVars, recsVars, portVars, reportVars>>
    \/ \E t \in TaskIds : UpdateSellDetailsUpdate(t) /\ UNCHANGED <<httpVars, cacheVars, metricsVars, holderVars, flagVars, scoreVars, pairVars, recsVars, portVars, reportVars>>
    \/ \E t \in TaskIds : UpdateSellDetailsOldBalance(t) /\ UNCHANGED <<httpVars, cacheVars, metricsVars, holderVars, flagVars, scoreVars, pairVars, recsVars, portVars, reportVars>>
    \/ \E t \in TaskIds : UpdateSellDetailsBalance(t) /\ UNCHANGED <<httpVars, cacheVars, metricsVars, holderVars, flagVars, scoreVars, pairVars, recsVars, portVars, reportVars>>
    \/ \E t \in TaskIds : UpdateSellDetailsTransaction(t) /\ UNCHANGED <<httpVars, cacheVars, metricsVars, holderVars, flagVars, scoreVars, pairVars, recsVars, portVars, reportVars>>

(***************************************************************************)
(*                  CLAIMS ABOUT THE SELLING ORCHESTRATOR                  *)
(***************************************************************************)

\* C1: when two processTokenPerformance calls for the same token address are
\* in flight together, at most one of them sends startProcess to the process
\* backend (the other is a no-op).
C1_ConcurrentStartsSendOneStartProcess ==
    \A t1, t2 \in TaskIds :
        (/\ t1 # t2
         /\ task[t1].op = "ptp" /\ task[t2].op = "ptp"
         /\ task[t1].token = task[t2].token
         /\ task[t1].overlap /\ task[t2].overlap)
        => ~(task[t1].started /\ task[t2].started)

\* C2: a delivered message is acknowledged only once processMessage has
\* completed for it: no acknowledged message has its sell still in flight.
C2_AckOnlyAfterSellCompleted ==
    \A t \in TaskIds :
        (task[t].op = "msg" /\ qAcks[task[t].msg] > 0) => task[t].pc = "done"

\* C7: an updateSellDetails call that returns the no-open-trade signal has
\* created no recommender record and sent nothing to the metrics backend.
C7_NoTradeSellMutatesNothing ==
    \A t \in TaskIds :
        (task[t].op = "sell" /\ task[t].pc = "done" /\ task[t].out = "noTrade")
        => (~task[t].created /\ ~task[t].mirrored)

SellInProgress(r) ==
    /\ r.op = "msg"
    /\ \/ r.pc \in {"usd_fetch", "usd_trade", "usd_update", "usd_getbal",
                     "usd_setbal", "usd_tx", "esd_balance", "esd_stop"}
       \/ (r.pc \in {"goc_db", "goc_be"} /\ r.site \in {"esd", "usd"})

\* C17: every delivered message is acknowledged exactly once, whatever the
\* outcome of its handling, processMessage runs once for it, and nothing is
\* acknowledged that was not delivered.
C17_EveryMessageAckedOnce ==
    \A i \in 1..MaxMessages :
        IF i <= qDelivered THEN qAcks[i] = 1 /\ qRuns[i] = 1
        ELSE qAcks[i] = 0 /\ qRuns[i] = 0

\* the handling of an acknowledged message has ended in a failure inside the
\* sell, that of another in an unparseable payload
C17_Witness ==
    \E t1, t2 \in TaskIds :
        /\ task[t1].op = "msg" /\ task[t1].pc = "done" /\ task[t1].out = "threw"
        /\ task[t2].op = "msg" /\ task[t2].pc = "done" /\ task[t2].out = "parseError"
        /\ qAcks[task[t1].msg] = 1 /\ qAcks[task[t2].msg] = 1

\* C18: when executeSellDecision has executed the sell and read the balance,
\* stopProcess is sent for the token (there being a process backend) and a
\* token whose balance is zero is not in the running set after that step;
\* when the sell threw, no stopProcess is sent.
C18_StopAfterSuccessfulSell ==
    [][\A t \in TaskIds :
          LET tok == task[t].token
          IN  /\ (task[t].pc = "esd_balance" /\ task'[t].pc # "esd_balance")
                 => /\ sonarOn => sonarStops'[tok] = sonarStops[tok] + 1
                    /\ dbBalance[tok] = 0 => tok \notin runningProcesses'
              /\ (SellInProgress(task[t]) /\ task'[t].pc = "done"
                  /\ task'[t].out = "threw")
                 => sonarStops' = sonarStops]_vars

\* a sell of the whole balance was executed for a running token: stopProcess
\* is awaited and the token has left the running set
C18_Witness ==
    \E t \in TaskIds :
        /\ task[t].op = "msg"
        /\ task[t].pc = "esd_stop"
        /\ task[t].out = "sold"
        /\ dbBalance[task[t].token] = 0
        /\ sonarStarts[task[t].token] > 0
        /\ sonarStops[task[t].token] > 0
        /\ task[t].token \notin runningProcesses

\* C19: with a process backend, a finished scan has sent startProcess for
\* exactly the token performances with nonzero balance that were not in the
\* running set when it filtered them.
C19_ScanStartsEveryIdleToken ==
    \A t \in TaskIds :
        (task[t].op = "scan" /\ task[t].pc = "done" /\ sonarOn)
        => task[t].startedFor = task[t].picked

\* C20: no two sell executions for the same token address are in progress
\* at the same time.
C20_SellsOfOneTokenSerialized ==
    \A t1, t2 \in TaskIds :
        (t1 # t2 /\ SellInProgress(task[t1]) /\ SellInProgress(task[t2]))
        => task[t1].token # task[t2].token

\* C21: a sell directive delivered twice leaves what one delivery leaves: no
\* trade row is mutated by a sell more than once.
C21_SellMutatesTradeRowOnce ==
    \A i \in 1..Len(dbTrades) : dbTrades[i].sells <= 1

\* C22: when the metrics backend's mirror call settles, by failing as by
\* succeeding, getOrCreateRecommender goes on with the stored recommender
\* and createTradePerformance returns the recorded trade, the local writes
\* being done.
C22_BackendFailureNeverFailsPrimary ==
    [][\A t \in TaskIds :
          /\ (task[t].pc = "goc_be" /\ task'[t].pc # "goc_be")
             => /\ task'[t].out # "threw"
                /\ task'[t].retId = task[t].rec
                /\ dbRecommenders[task[t].rec] > 0
          /\ (task[t].pc = "buy_be" /\ task'[t].pc # "buy_be")
             => /\ task'[t].pc = "done"
                /\ task'[t].out = "returned"
                /\ LatestTrade(dbTrades, task[t].token, task[t].rec, task[t].sim) # 0
                /\ dbVars' = dbVars]_vars

\* C23: when startProcess or stopProcess settles, by failing as by
\* succeeding, nothing is thrown out of processTokenPerformance, the scan or
\* the sell handler, no persisted row changes, and the buy or sell that sent
\* it has its writes in the database.
C23_ProcessBackendFailureNotFatal ==
    [][\A t \in TaskIds :
          LET r == task[t]
              q == task'[t]
          IN  /\ (r.pc = "ptp_start" /\ q.pc # "ptp_start") =>
                    /\ dbVars' = dbVars
                    /\ q.pc \in {"done", "buy_be"}
                    /\ q.out \in {"none", "returned"}
                    /\ r.op = "buy" =>
                          /\ LatestTrade(dbTrades, r.token, r.rec, r.sim) # 0
                          /\ dbTokenRecs[r.token] # <<>>
                          /\ r.sim => dbTx[r.token].buy > 0
              /\ (r.pc = "esd_stop" /\ q.pc # "esd_stop") =>
                    /\ dbVars' = dbVars
                    /\ q.pc = "done"
                    /\ q.out = r.out
                    /\ r.out \in {"sold", "noTrade"}
                    /\ r.out = "sold" => dbTx[r.token].sell > 0
              /\ \A tok \in Tokens :
                    (/\ r.pc = "scan_all" /\ r.scan[tok] = "start"
                     /\ (q.pc = "done" \/ q.scan[tok] # "start")) =>
                        /\ dbVars' = dbVars
                        /\ (q.pc = "done" /\ q.out = "threw")
                           => \E other \in Tokens : r.scan[other] = "threw"]_vars

\* a buy whose startProcess failed has returned: the rows are stored and the
\* token is not in the running set
C23_Witness ==
    \E t \in TaskIds :
        /\ task[t].op = "buy"
        /\ task[t].pc = "done"
        /\ task[t].out = "returned"
        /\ task[t].started
        /\ task[t].token \notin runningProcesses
        /\ sonarStarts[task[t].token] = 1
        /\ LatestTrade(dbTrades, task[t].token, task[t].rec, TRUE) # 0
        /\ dbTx[task[t].token].buy = 1

\* the writes one step of createTradePerformance makes, by the await it
\* resumes from
BuyStepWrites(r) ==
    [perf |-> IF r.pc = "buy_upsert" THEN 1 ELSE 0,
     trade |-> IF r.pc = "buy_trade" THEN 1 ELSE 0,
     rec |-> IF r.pc = "buy_rec" THEN 1 ELSE 0,
     tx |-> IF r.pc = "buy_tx" THEN 1 ELSE 0]

\* C27: createTradePerformance makes its writes one after the other, each
\* once: the TokenPerformance upsert, the TradePerformance row, the
\* TokenRecommendation and, if and only if the trade is a simulation, the
\* balance and the buy Transaction; processTokenPerformance is entered only
\* by the step that completes the last of them.
C27_BuyWritesOnceThenTriggers ==
    [][\A t \in TaskIds :
          (task[t].op = "buy" /\ task'[t].pc # task[t].pc /\ task[t].pc # "done") =>
              LET r == task[t]
                  q == task'[t]
                  w == BuyStepWrites(r)
                  triggered == q.pc \in {"ptp_getTP", "ptp_start", "buy_be"}
                                 \/ (q.pc = "done" /\ q.out = "returned")
              IN  /\ w.perf = 1 => (r.token \in dbPerf' /\ q.pc = "buy_trade")
                  /\ Len(dbTrades') = Len(dbTrades) + w.trade
                  /\ w.trade = 1 =>
                        /\ q.pc = "buy_rec"
                        /\ dbTrades'[Len(dbTrades')].token = r.token
                        /\ dbTrades'[Len(dbTrades')].rec = r.rec
                        /\ r.token \in dbPerf
                  /\ Len(dbTokenRecs'[r.token]) = Len(dbTokenRecs[r.token]) + w.rec
                  /\ w.rec = 1 =>
                        IF r.sim THEN q.pc = "buy_setbal" ELSE triggered
                  /\ r.pc = "buy_setbal" => q.pc = "buy_tx"
                  /\ dbTx'[r.token].buy = dbTx[r.token].buy + w.tx
                  /\ w.tx = 1 => (r.sim /\ triggered)
                  /\ (triggered /\ r.pc \notin {"ptp_getTP", "ptp_start", "buy_be"}) =>
                        /\ r.pc = IF r.sim THEN "buy_tx" ELSE "buy_rec"
                        /\ LatestTrade(dbTrades', r.token, r.rec, r.sim) # 0
                        /\ dbTokenRecs'[r.token] # <<>>
                  /\ sonarStarts' # sonarStarts => r.pc = "ptp_getTP"]_vars

\* a simulated buy has returned with one trade row, one recommendation and
\* one buy transaction stored, and startProcess was sent once
C27_Witness ==
    \E t \in TaskIds :
        /\ task[t].op = "buy"
        /\ task[t].pc = "done"
        /\ task[t].out = "returned"
        /\ Len(dbTrades) = 1
        /\ dbTrades[1].sim
        /\ Len(dbTokenRecs[task[t].token]) = 1
        /\ dbTx[task[t].token].buy = 1
        /\ task[t].token \in dbPerf
        /\ sonarStarts[task[t].token] = 1

\* the trade rows that updateTradePerformanceOnSell addresses with row i's key
SameTradeKey(i) ==
    { j \in 1..Len(dbTrades) :
        /\ dbTrades[j].token = dbTrades[i].token
        /\ dbTrades[j].rec = dbTrades[i].rec
        /\ dbTrades[j].buyTs = dbTrades[i].buyTs
        /\ dbTrades[j].sim = dbTrades[i].sim }

MaxHolderCalls == 2
\* token accounts on one page of the model
MaxPageLen == 2
\* the loop breaks once page > MAX_HOLDER_PAGES
MAX_HOLDER_PAGES == 2

Owners == {"o1", "o2"}
\* data.result.cursor of a response
Cursors == {"c1", "c2"}
\* let cursor; before the first page
NoCursor == "undefined"
\* account.amount, a string of digits
AmountStrings == {<<"5">>, <<"1", "2">>}
TokenAccounts == [owner : Owners, amount : AmountStrings]

\* data.result.token_accounts of one response; the empty page also stands for
\* a response without result or token_accounts
HolderPages ==
    UNION { [1..n -> TokenAccounts] : n \in 0..MaxPageLen }

\* parseFloat(account.amount): the number of the leading digits
parseFloat(str) == parseInt(SubSeq(str, 1, LeadingDigits(str)))

\* balance.toString() of a non-negative integer
RECURSIVE toString(_)
toString(n) ==
    IF n < 10 THEN <<Digits[n + 1]>>
    ELSE toString(n \div 10) \o <<Digits[(n % 10) + 1]>>

\* params of a request that does not continue from the previous page
PageParamsWithoutCursor(cursor) == [limit |-> 1000, cursor |-> NoCursor]

\* params of one getTokenAccounts request: limit and the current cursor
PageParams(cursor) == [limit |-> 1000, cursor |-> cursor]

HasOwner(map, owner) == \E i \in 1..Len(map) : map[i].address = owner

MergeAccountOverwriting(map, account) ==
    IF HasOwner(map, account.owner)
    THEN [i \in 1..Len(map) |->
            IF map[i].address = account.owner
            THEN [map[i] EXCEPT !.balance = parseFloat(account.amount)]
            ELSE map[i]]
    ELSE Append(map, [address |-> account.owner,
                      balance |-> parseFloat(account.amount)])

\* the body of token_accounts.forEach: add to the owner's entry, or set it
MergeAccount(map, account) ==
    IF HasOwner(map, account.owner)
    THEN [i \in 1..Len(map) |->
            IF map[i].address = account.owner
            THEN [map[i] EXCEPT !.balance = @ + parseFloat(account.amount)]
            ELSE map[i]]
    ELSE Append(map, [address |-> account.owner,
                      balance |-> parseFloat(account.amount)])

RECURSIVE MergePage(_, _)
MergePage(map, accounts) ==
    IF accounts = <<>> THEN map
    ELSE MergePage(MergeAccount(map, Head(accounts)), Tail(accounts))

\* holders: Array.from(allHoldersMap.entries()) with balance.toString()
HolderRows(map) ==
    [i \in 1..Len(map) |->
        [address |-> map[i].address, balance |-> toString(map[i].balance)]]

HolderInit ==
    /\ hlPc = "idle"
    /\ hlExpires = FALSE
    /\ hlPage = 1
    /\ hlMap = <<>>
    /\ hlSeen = <<>>
    /\ hlCache = <<>>
    /\ hlOut = [kind |-> "none", holders |-> <<>>]
    /\ hlCalls = 0
    /\ hlCursor = NoCursor
    /\ hlReqs = <<>>
    /\ hlCursors = <<>>

\* fetchHolderList is called: the cache is read when expires is given, else
\* the first page is requested
HolderCall(expires) ==
    /\ hlPc \in {"idle", "done"}
    /\ hlCalls < MaxHolderCalls
    /\ hlCalls' = hlCalls + 1
    /\ hlExpires' = expires
    /\ hlPc' = IF expires THEN "cache_get" ELSE "page"
    /\ hlPage' = 1
    /\ hlMap' = <<>>
    /\ hlSeen' = <<>>
    /\ hlOut' = [kind |-> "none", holders |-> <<>>]
    /\ hlCursor' = NoCursor
    /\ hlReqs' = IF expires THEN <<>> ELSE <<PageParams(NoCursor)>>
    /\ hlCursors' = <<>>
    /\ UNCHANGED hlCache

\* cache.get resolves: the cached list is returned, else the first page is
\* requested
HolderCacheGet ==
    /\ hlPc = "cache_get"
    /\ IF hlCache # <<>>
       THEN /\ hlPc' = "done"
            /\ hlOut' = [kind |-> "cached", holders |-> hlCache[1]]
            /\ hlReqs' = hlReqs
       ELSE /\ hlPc' = "page"
            /\ hlOut' = hlOut
            /\ hlReqs' = <<PageParams(hlCursor)>>
    /\ UNCHANGED <<hlExpires, hlPage, hlMap, hlSeen, hlCache, hlCalls, hlCursor,
                   hlCursors>>

\* http.jsonrpc resolves with a page.  An empty page breaks the loop; else
\* the accounts are merged, cursor takes the page's cursor, page is
\* incremented and the loop breaks when page > 2, else the next page is
\* requested.  After the loop the rows are built, and written to the cache
\* when expires is given.
HolderPage(accounts, next) ==
    /\ hlPc = "page"
    /\ LET map == MergePage(hlMap, accounts)
           page == IF accounts = <<>> THEN hlPage ELSE hlPage + 1
           cursor == IF accounts = <<>> THEN hlCursor ELSE next
           break == accounts = <<>> \/ page > MAX_HOLDER_PAGES
       IN  /\ hlMap' = map
           /\ hlPage' = page
           /\ hlSeen' = hlSeen \o accounts
           /\ hlCursor' = cursor
           /\ hlCursors' = IF accounts = <<>> THEN hlCursors
                           ELSE Append(hlCursors, next)
           /\ hlReqs' = IF break THEN hlReqs
                        ELSE Append(hlReqs, PageParams(cursor))
           /\ IF ~break
              THEN hlPc' = "page" /\ hlOut' = hlOut
              ELSE /\ hlOut' = [kind |-> IF hlExpires THEN "none" ELSE "returned",
                               holders |-> HolderRows(map)]
                   /\ hlPc' = IF hlExpires THEN "cache_set" ELSE "done"
    /\ UNCHANGED <<hlExpires, hlCache, hlCalls>>

\* http.jsonrpc rejects: the catch throws "Failed to fetch holder list from
\* Helius."
HolderPageFail ==
    /\ hlPc = "page"
    /\ hlPc' = "done"
    /\ hlOut' = [kind |-> "threw", holders |-> <<>>]
    /\ UNCHANGED <<hlExpires, hlPage, hlMap, hlSeen, hlCache, hlCalls, hlCursor,
                   hlReqs, hlCursors>>

\* cache.set resolves and the rows are returned, or it rejects and the catch
\* throws
HolderCacheSet(ok) ==
    /\ hlPc = "cache_set"
    /\ hlPc' = "done"
    /\ IF ok
       THEN /\ hlCache' = <<hlOut.holders>>
            /\ hlOut' = [hlOut EXCEPT !.kind = "returned"]
       ELSE /\ hlCache' = hlCache
            /\ hlOut' = [kind |-> "threw", holders |-> <<>>]
    /\ UNCHANGED <<hlExpires, hlPage, hlMap, hlSeen, hlCalls, hlCursor, hlReqs,
                   hlCursors>>

\* the cache entry expires
HolderCacheExpire ==
    /\ hlCache # <<>>
    /\ hlCache' = <<>>
    /\ UNCHANGED <<hlPc, hlExpires, hlPage, hlMap, hlSeen, hlOut, hlCalls,
                   hlCursor, hlReqs, hlCursors>>

NextHolders ==
    \/ \E expires \in BOOLEAN : HolderCall(expires) /\ UNCHANGED <<httpVars, cacheVars, metricsVars, sellVars, flagVars, scoreVars, pairVars, recsVars, portVars, reportVars>>
    \/ HolderCacheGet /\ UNCHANGED <<httpVars, cacheVars, metricsVars, sellVars, flagVars, scoreVars, pairVars, recsVars, portVars, reportVars>>
    \/ \E accounts \in HolderPages, next \in Cursors :
          HolderPage(accounts, next) /\ UNCHANGED <<httpVars, cacheVars, metricsVars, sellVars, flagVars, scoreVars, pairVars, recsVars, portVars, reportVars>>
    \/ HolderPageFail /\ UNCHANGED <<httpVars, cacheVars, metricsVars, sellVars, flagVars, scoreVars, pairVars, recsVars, portVars, reportVars>>
    \/ \E ok \in BOOLEAN : HolderCacheSet(ok) /\ UNCHANGED <<httpVars, cacheVars, metricsVars, sellVars, flagVars, scoreVars, pairVars, recsVars, portVars, reportVars>>
    \/ HolderCacheExpire /\ UNCHANGED <<httpVars, cacheVars, metricsVars, sellVars, flagVars, scoreVars, pairVars, recsVars, portVars, reportVars>>

\* C14: the list fetchHolderList computed has exactly one row per distinct
\* owner seen on the pages it fetched, and the row's balance is the sum of the
\* amounts of the owner's token accounts over those pages.
C14_HolderBalancesAreOwnerSums ==
    (hlPc \in {"cache_set", "done"} /\ hlOut.kind \in {"none", "returned"}
     /\ (hlPc = "done" => hlOut.kind = "returned"))
    => LET rows == hlOut.holders
           amountsOf(o) == { i \in 1..Len(hlSeen) : hlSeen[i].owner = o }
           sum[n \in 0..Len(hlSeen), o \in Owners] ==
               IF n = 0 THEN 0
               ELSE sum[n - 1, o]
                    + (IF hlSeen[n].owner = o THEN parseInt(hlSeen[n].amount) ELSE 0)
       IN  \A o \in Owners :
             LET mine == { i \in 1..Len(rows) : rows[i].address = o }
             IN  IF amountsOf(o) = {} THEN mine = {}
                 ELSE /\ Cardinality(mine) = 1
                      /\ \A i \in mine : parseInt(rows[i].balance) = sum[Len(hlSeen), o]

\* two pages were fetched, one owner has accounts on both, and the list was
\* returned
C14_Witness ==
    /\ hlPc = "done"
    /\ hlOut.kind = "returned"
    /\ Len(hlSeen) = 2 * MaxPageLen
    /\ \E i \in 1..MaxPageLen, j \in (MaxPageLen + 1)..Len(hlSeen) :
          hlSeen[i].owner = hlSeen[j].owner
    /\ Len(hlOut.holders) = 2

(***************************************************************************)
(*        isRapidDump, isSustainedGrowth, isSuspiciousVolume               *)
(* Percentages are integers in hundredths of a percent: -50.01 is -5001.   *)
(***************************************************************************)

\* a field that may be missing (undefined or null)
Missing == [present |-> FALSE, value |-> 0]
Given(x) == [present |-> TRUE, value |-> x]

\* field ?? fallback
Coalesce(field, fallback) == IF field.present THEN field.value ELSE fallback

TradeChangeInputs ==
    {Missing} \cup { Given(x) : x \in {-6000, -5001, -5000, -4999, 0, 5001} }
VolumeChangeInputs ==
    {Missing} \cup { Given(x) : x \in {-5001, 0, 4999, 5000, 5001, 6000} }
\* unique_wallet_24h and volume_24h
WalletVolumeInputs == { <<0, 0>>, <<5, 0>>, <<10, 20>>, <<11, 20>> }

TradeDataInputs ==
    { [trade_24h_change_percent |-> t, volume_24h_change_percent |-> v,
       unique_wallet_24h |-> w[1], volume_24h |-> w[2]] :
        t \in TradeChangeInputs, v \in VolumeChangeInputs, w \in WalletVolumeInputs }

isRapidDumpInclusive(tradeData) ==
    Coalesce(tradeData.trade_24h_change_percent, 0) <= -5000

isRapidDump(tradeData) ==
    Coalesce(tradeData.trade_24h_change_percent, 0) < -5000

isSustainedGrowthInclusive(tradeData) ==
    Coalesce(tradeData.volume_24h_change_percent, 0) >= 5000

isSustainedGrowth(tradeData) ==
    Coalesce(tradeData.volume_24h_change_percent, 0) > 5000

\* unique_wallet_24h / volume_24h > 0.5 on non-negative numbers: x / 0 is
\* Infinity for x > 0 and NaN for x = 0
isSuspiciousVolume(tradeData) ==
    IF tradeData.volume_24h = 0 THEN tradeData.unique_wallet_24h > 0
    ELSE 2 * tradeData.unique_wallet_24h > tradeData.volume_24h

NoFlags ==
    [rapidDump |-> "unset", sustainedGrowth |-> "unset", suspiciousVolume |-> "unset"]

\* no market data was processed
FlagsIdle ==
    /\ fData = [trade_24h_change_percent |-> Missing,
                volume_24h_change_percent |-> Missing,
                unique_wallet_24h |-> 0, volume_24h |-> 0]
    /\ fOut = NoFlags

\* any market data was processed
FlagsInit ==
    /\ fData \in TradeDataInputs
    /\ fOut = NoFlags

EvalRapidDump ==
    /\ fOut.rapidDump = "unset"
    /\ fOut' = [fOut EXCEPT !.rapidDump = IF isRapidDump(fData) THEN "true" ELSE "false"]
    /\ UNCHANGED fData

EvalSustainedGrowth ==
    /\ fOut.sustainedGrowth = "unset"
    /\ fOut' = [fOut EXCEPT !.sustainedGrowth =
                               IF isSustainedGrowth(fData) THEN "true" ELSE "false"]
    /\ UNCHANGED fData

EvalSuspiciousVolume ==
    /\ fOut.suspiciousVolume = "unset"
    /\ fOut' = [fOut EXCEPT !.suspiciousVolume =
                               IF isSuspiciousVolume(fData) THEN "true" ELSE "false"]
    /\ UNCHANGED fData

NextFlags ==
    \/ EvalRapidDump /\ UNCHANGED <<httpVars, cacheVars, metricsVars, sellVars, holderVars, scoreVars, pairVars, recsVars, portVars, reportVars>>
    \/ EvalSustainedGrowth /\ UNCHANGED <<httpVars, cacheVars, metricsVars, sellVars, holderVars, scoreVars, pairVars, recsVars, portVars, reportVars>>
    \/ EvalSuspiciousVolume /\ UNCHANGED <<httpVars, cacheVars, metricsVars, sellVars, holderVars, scoreVars, pairVars, recsVars, portVars, reportVars>>

\* C15: isRapidDump is true exactly when trade_24h_change_percent < -50; -50
\* gives false and a missing value gives false.
C15_RapidDumpBelowMinusFifty ==
    fOut.rapidDump # "unset" =>
        LET field == fData.trade_24h_change_percent
        IN  /\ (fOut.rapidDump = "true") <=> (field.present /\ field.value < -5000)
            /\ field = Given(-5000) => fOut.rapidDump = "false"
            /\ field = Missing => fOut.rapidDump = "false"

\* isRapidDump was applied to the boundary value -50
C15_Witness ==
    /\ fData.trade_24h_change_percent = Given(-5000)
    /\ fOut.rapidDump = "false"

\* C16: isSustainedGrowth is true exactly when volume_24h_change_percent > 50;
\* 50 gives false and a missing value gives false.
C16_SustainedGrowthAboveFifty ==
    fOut.sustainedGrowth # "unset" =>
        LET field == fData.volume_24h_change_percent
        IN  /\ (fOut.sustainedGrowth = "true") <=> (field.present /\ field.value > 5000)
            /\ field = Given(5000) => fOut.sustainedGrowth = "false"
            /\ field = Missing => fOut.sustainedGrowth = "false"

\* isSustainedGrowth was applied to the boundary value 50
C16_Witness ==
    /\ fData.volume_24h_change_percent = Given(5000)
    /\ fOut.sustainedGrowth = "false"

(***************************************************************************)
(*                  TrustScoreManager.calculateRiskScore                   *)
(***************************************************************************)

\* the token performances calculateRiskScore is applied to: every combination
\* of the four risk flags, with other fields of the record varying
RiskScoreInputs ==
    { [rugPull |-> rugPull, isScam |-> isScam, rapidDump |-> rapidDump,
       suspiciousVolume |-> suspiciousVolume, sustainedGrowth |-> sustainedGrowth,
       priceChange24h |-> priceChange24h * FixedPointUnit] :
        rugPull \in BOOLEAN, isScam \in BOOLEAN, rapidDump \in BOOLEAN,
        suspiciousVolume \in BOOLEAN, sustainedGrowth \in BOOLEAN,
        priceChange24h \in {-20, 0, 30} }

NoScore == [computed |-> FALSE, riskScore |-> 0]

\* no token performance was scored
ScoreIdle ==
    /\ rsToken = [rugPull |-> FALSE, isScam |-> FALSE, rapidDump |-> FALSE,
                  suspiciousVolume |-> FALSE, sustainedGrowth |-> FALSE,
                  priceChange24h |-> 0]
    /\ rsOut = NoScore

\* any token performance is about to be scored
ScoreInit ==
    /\ rsToken \in RiskScoreInputs
    /\ rsOut = NoScore

EvalRiskScore ==
    /\ ~rsOut.computed
    /\ rsOut' = [computed |-> TRUE, riskScore |-> calculateRiskScore(rsToken)]
    /\ UNCHANGED rsToken

NextScore ==
    \/ EvalRiskScore /\ UNCHANGED <<httpVars, cacheVars, metricsVars, sellVars, holderVars, flagVars, pairVars, recsVars, portVars, reportVars>>

\* a flag counted as 0 or 1
FlagCount(flag) == IF flag THEN 1 ELSE 0

\* C28: calculateRiskScore is 10*rugPull + 10*isScam + 5*rapidDump +
\* 5*suspiciousVolume (flags counted 0/1) for every combination of the four
\* flags, whatever the other fields hold, so it is one of 0, 5, 10, 15, 20,
\* 25, 30.
C28_RiskScoreIsWeightedFlagSum ==
    rsOut.computed =>
        /\ rsOut.riskScore =
              (10 * FlagCount(rsToken.rugPull) + 10 * FlagCount(rsToken.isScam)
               + 5 * FlagCount(rsToken.rapidDump)
               + 5 * FlagCount(rsToken.suspiciousVolume)) * FixedPointUnit
        /\ rsOut.riskScore \in { k * FixedPointUnit : k \in {0, 5, 10, 15, 20, 25, 30} }

\* a record with a rug pull and a rapid dump only was scored 15
C28_Witness ==
    /\ rsOut.computed
    /\ rsToken.rugPull /\ ~rsToken.isScam
    /\ rsToken.rapidDump /\ ~rsToken.suspiciousVolume
    /\ rsToken.priceChange24h # 0
    /\ rsOut.riskScore = 15 * FixedPointUnit

(***************************************************************************)
(*            DexscreenerClient.searchForHighestLiquidityPair              *)
(***************************************************************************)

\* pairs in one search result
MaxPairs == 3

LiquidityUsd == {1, 2}
MarketCaps == {1, 2}

\* a DexScreenerPair: liquidity.usd and marketCap are read
DexScreenerPairs ==
    [liquidityUsd : LiquidityUsd, marketCap : MarketCaps]

PairLists ==
    UNION { [1..n -> DexScreenerPairs] : n \in 0..MaxPairs }

comparePairsByLiquidityOnly(a, b) ==
    b.liquidityUsd - a.liquidityUsd

\* the comparator handed to sort
comparePairs(a, b) ==
    LET liquidityDiff == b.liquidityUsd - a.liquidityUsd
    IN  IF liquidityDiff # 0 THEN liquidityDiff ELSE b.marketCap - a.marketCap

\* x put into a sorted list behind every element that does not sort after it
RECURSIVE InsertPair(_, _)
InsertPair(sorted, x) ==
    IF sorted = <<>> THEN <<x>>
    ELSE IF comparePairs(Head(sorted), x) <= 0
         THEN <<Head(sorted)>> \o InsertPair(Tail(sorted), x)
         ELSE <<x>> \o sorted

\* Array.prototype.sort with comparePairs: a stable sort
RECURSIVE SortPairs(_)
SortPairs(pairs) ==
    IF pairs = <<>> THEN <<>>
    ELSE InsertPair(SortPairs(SubSeq(pairs, 1, Len(pairs) - 1)), pairs[Len(pairs)])

NoPair == [kind |-> "none"]
NullPair == [kind |-> "null"]

PairsIdle ==
    /\ lpPc = "idle"
    /\ lpPairs = <<>>
    /\ lpOut = NoPair

\* searchForHighestLiquidityPair is called: search is awaited
PairsCall ==
    /\ lpPc = "idle"
    /\ lpPc' = "search"
    /\ UNCHANGED <<lpPairs, lpOut>>

\* search returns the data of the response
PairsSearchOk(pairs) ==
    /\ lpPc = "search"
    /\ lpPairs' = pairs
    /\ lpPc' = "select"
    /\ UNCHANGED lpOut

\* search caught an error (request failed, or no pairs in the data): it
\* returns an empty list of pairs
PairsSearchFail ==
    /\ lpPc = "search"
    /\ lpPairs' = <<>>
    /\ lpPc' = "select"
    /\ UNCHANGED lpOut

\* null for no pairs, otherwise data.pairs is sorted in place and its first
\* element returned
PairsSelect ==
    /\ lpPc = "select"
    /\ lpPc' = "done"
    /\ IF Len(lpPairs) = 0
       THEN /\ lpOut' = NullPair
            /\ UNCHANGED lpPairs
       ELSE /\ lpPairs' = SortPairs(lpPairs)
            /\ lpOut' = [kind |-> "pair", pair |-> SortPairs(lpPairs)[1]]

NextPairs ==
    \/ PairsCall /\ UNCHANGED <<httpVars, cacheVars, metricsVars, sellVars, holderVars, flagVars, scoreVars, recsVars, portVars, reportVars>>
    \/ \E pairs \in PairLists : PairsSearchOk(pairs) /\ UNCHANGED <<httpVars, cacheVars, metricsVars, sellVars, holderVars, flagVars, scoreVars, recsVars, portVars, reportVars>>
    \/ PairsSearchFail /\ UNCHANGED <<httpVars, cacheVars, metricsVars, sellVars, holderVars, flagVars, scoreVars, recsVars, portVars, reportVars>>
    \/ PairsSelect /\ UNCHANGED <<httpVars, cacheVars, metricsVars, sellVars, holderVars, flagVars, scoreVars, recsVars, portVars, reportVars>>

\* C30: searchForHighestLiquidityPair returns null when there are no pairs;
\* otherwise it returns one of the pairs, no pair has more liquidity than it,
\* and no pair with the same liquidity has a larger market cap.
C30_HighestLiquidityThenMarketCap ==
    lpPc = "done" =>
        IF Len(lpPairs) = 0
        THEN lpOut = NullPair
        ELSE /\ lpOut.kind = "pair"
             /\ \E i \in 1..Len(lpPairs) : lpPairs[i] = lpOut.pair
             /\ \A i \in 1..Len(lpPairs) :
                   /\ lpPairs[i].liquidityUsd <= lpOut.pair.liquidityUsd
                   /\ lpPairs[i].liquidityUsd = lpOut.pair.liquidityUsd
                      => lpPairs[i].marketCap <= lpOut.pair.marketCap

\* three pairs, two of them sharing the highest liquidity with different
\* market caps, and the one with the larger market cap was returned
C30_Witness ==
    /\ lpPc = "done"
    /\ Len(lpPairs) = 3
    /\ lpOut.kind = "pair"
    /\ lpOut.pair = [liquidityUsd |-> 2, marketCap |-> 2]
    /\ \E i \in 1..3 : lpPairs[i] = [liquidityUsd |-> 2, marketCap |-> 1]
    /\ \E i \in 1..3 : lpPairs[i].liquidityUsd = 1

\* C32: when a recommender has no metrics row, updateRecommenderMetrics and
\* generateTrustScore report the absence as a returned or logged result
\* instead of raising an error, and they write nothing.
C32_AbsentMetricsNotRaised ==
    [][
        \A u \in MetricsCallers :
            (/\ mTask[u].pc \in {"read", "gen_read"}
             /\ mTask'[u].pc # mTask[u].pc
             /\ mMetrics = <<>>)
            => (/\ mTask'[u].result # "threw"
                /\ mMetrics' = mMetrics
                /\ mWrites' = mWrites)
    ]_vars

\* C39: no update of a recommender's metrics is lost: every completed
\* updateRecommenderMetrics call raises the persisted totalRecommendations by
\* one and the persisted successfulRecs by one unless its token performance is
\* a rug pull, so k completed calls in any interleaving give initial + k and
\* initial + the number of calls that were not rug pulls.
C39_NoMetricsUpdateLost ==
    [][
        \A u \in MetricsCallers :
            (mTask[u].pc = "write" /\ mTask'[u].pc = "done")
            => (/\ mMetrics'[1].totalRecommendations
                     = mMetrics[1].totalRecommendations + 1
                /\ mMetrics'[1].successfulRecs
                     = mMetrics[1].successfulRecs
                       + (IF mTask[u].tokenPerformance[1].rugPull THEN 0 ELSE 1))
    ]_vars

\* C38: the simulated balance of a token is never negative, after any
\* sequence of simulated buys and sells, oversells and duplicate sells
\* included.
C38_BalanceNeverNegative ==
    \A tok \in Tokens : dbBalance[tok] >= 0

\* C36: a token address leaves the running set only when its simulated
\* balance has reached zero or its monitoring has completed or failed: after
\* a queue-driven sell that leaves a nonzero balance (a partial sell, a sell
\* that found no open trade, or one that failed) the token address is still
\* in the running set.
C36_NonzeroBalanceStaysRunning ==
    [][
        \A t \in TaskIds :
            LET tok == task[t].token
            IN  (/\ task[t].op = "msg"
                 /\ SellInProgress(task[t])
                 /\ task'[t].pc = "done"
                 /\ tok \in runningProcesses
                 /\ dbBalance'[tok] # 0)
                => tok \in runningProcesses'
    ]_vars

\* C40: a token address is in the running set only if a startProcess call for
\* that address has returned a result: the address enters the set only in the
\* step that resumes processTokenPerformance or a mapper of the scan after
\* startProcess, and when there is no process backend or no token performance
\* the steps of processTokenPerformance and of the scan leave the set as it is.
C40_RunningOnlyAfterStartProcess ==
    [][
        /\ \A tok \in Tokens :
              (tok \notin runningProcesses /\ tok \in runningProcesses')
              => /\ sonarOn
                 /\ tok \in dbPerf
                 /\ sonarStarts[tok] > 0
                 /\ \E t \in TaskIds :
                       \/ /\ task[t].pc = "ptp_start"
                          /\ task[t].token = tok
                          /\ task'[t].pc # "ptp_start"
                       \/ /\ task[t].pc = "scan_all"
                          /\ task[t].scan[tok] = "start"
                          /\ (task'[t].pc = "done" \/ task'[t].scan[tok] = "done")
        /\ \A t \in TaskIds :
              /\ (/\ task[t].pc = "ptp_getTP"
                  /\ task'[t].pc # "ptp_getTP"
                  /\ (~sonarOn \/ task[t].token \notin dbPerf))
                 => runningProcesses' = runningProcesses
              /\ (/\ task[t].pc \in {"scan_list", "scan_all"}
                  /\ task'[t] # task[t]
                  /\ ~sonarOn)
                 => runningProcesses' = runningProcesses
        /\ \A tok \in runningProcesses' : sonarStarts'[tok] > 0
    ]_vars

\* with a process backend and a token performance, a processTokenPerformance
\* call has sent startProcess, got null and returned: the token is not in the
\* running set (no message was delivered that could have removed it)
C40_Witness ==
    /\ sonarOn
    /\ qDelivered = 0
    /\ \E t \in TaskIds :
          /\ task[t].op = "ptp"
          /\ task[t].pc = "done"
          /\ task[t].started
          /\ task[t].token \in dbPerf
          /\ task[t].token \notin runningProcesses
          /\ sonarStarts[task[t].token] = 1

HolderResume ==
    \/ HolderCacheGet
    \/ \E accounts \in HolderPages, next \in Cursors : HolderPage(accounts, next)
    \/ HolderPageFail
    \/ \E ok \in BOOLEAN : HolderCacheSet(ok)

\* C37: fetchHolderList always terminates: a call that was started comes to
\* its end; it issues at most 2 page requests, the first without a cursor and
\* each later one carrying the cursor of the page before it, and it requests
\* no page after a page that returned no token accounts.
C37_HolderListTerminatesWithinTwoPages ==
    /\ [](/\ Len(hlReqs) <= 2
          /\ Len(hlCursors) <= Len(hlReqs)
          /\ Len(hlReqs) <= Len(hlCursors) + 1
          /\ (hlPc = "page" => Len(hlReqs) = Len(hlCursors) + 1)
          /\ \A i \in 1..Len(hlReqs) :
                hlReqs[i].cursor = IF i = 1 THEN NoCursor ELSE hlCursors[i - 1])
    /\ ((hlPc \in {"cache_get", "page", "cache_set"}) ~> (hlPc = "done"))

\* a call has fetched two pages with different cursors and returned: its
\* second request carried the cursor of the first page
C37_Witness ==
    /\ hlPc = "done"
    /\ hlOut.kind = "returned"
    /\ Len(hlReqs) = 2
    /\ hlCursors = <<"c1", "c2">>
    /\ hlReqs[2].cursor = "c1"
    /\ Len(hlSeen) >= 2

(***************************************************************************)
(*                  TrustScoreManager.getRecommendations                   *)
(* Scores are integers in hundredths; an average is kept as the fraction   *)
(* total / count that the division computes.                               *)
(***************************************************************************)

\* rows getRecommendationsByDateRange can return in one behaviour
MaxRecommendations == 3

TokenRecommendations == [tokenAddress : Tokens, recommenderId : RecIds]

RecommendationLists ==
    UNION { [1..n -> TokenRecommendations] : n \in 0..MaxRecommendations }

\* the token performance rows getTokenPerformance can return
RecommendedPerformances ==
    { tp \in TokenPerformanceInputs : ~tp.rugPull }

\* the metrics rows getRecommenderMetrics can return
RecommenderMetricsRows ==
    {FreshMetrics, [FreshMetrics EXCEPT !.avgTokenPerformance = 30 * FixedPointUnit]}

\* Object.keys(groupedRecommendations): the token addresses in the order of
\* their first recommendation
RECURSIVE GroupKeys(_)
GroupKeys(recommendations) ==
    IF recommendations = <<>> THEN <<>>
    ELSE LET rest == GroupKeys(SubSeq(recommendations, 1, Len(recommendations) - 1))
             key == recommendations[Len(recommendations)].tokenAddress
         IN  IF \E i \in 1..Len(rest) : rest[i] = key THEN rest
             ELSE Append(rest, key)

\* groupedRecommendations[tokenAddress]
GroupOf(recommendations, tokenAddress) ==
    SelectSeq(recommendations, LAMBDA r : r.tokenAddress = tokenAddress)

\* the body of the inner loop for one recommendation: nothing when the token
\* performance or the metrics are missing, else one RecommenderData
RecommenderDataOf(recommendation, perf, metrics) ==
    LET tokenPerformance == perf[recommendation.tokenAddress]
        recommenderMetrics == metrics[recommendation.recommenderId]
    IN  IF tokenPerformance = <<>> \/ recommenderMetrics = <<>> THEN <<>>
        ELSE <<[recommenderId |-> recommendation.recommenderId,
                trustScore |-> calculateTrustScore(tokenPerformance[1],
                                                   recommenderMetrics[1]),
                riskScore |-> calculateRiskScore(tokenPerformance[1]),
                consistencyScore |-> calculateConsistencyScore(tokenPerformance[1],
                                                               recommenderMetrics[1])]>>

RECURSIVE CollectRecommenderData(_, _, _)
CollectRecommenderData(tokenRecommendations, perf, metrics) ==
    IF tokenRecommendations = <<>> THEN <<>>
    ELSE RecommenderDataOf(Head(tokenRecommendations), perf, metrics)
         \o CollectRecommenderData(Tail(tokenRecommendations), perf, metrics)

RECURSIVE SumOf(_)
SumOf(numbers) ==
    IF numbers = <<>> THEN 0 ELSE Head(numbers) + SumOf(Tail(numbers))

\* total / count
Average(total, count) == [total |-> total, count |-> count]

\* a < b for two averages
AverageLess(a, b) == a.total * b.count < b.total * a.count

\* the summary pushed for one token: the totals of the recommenders that were
\* not skipped, divided by tokenRecommendations.length
SummaryOf(tokenAddress, tokenRecommendations, perf, metrics) ==
    LET recommenderData == CollectRecommenderData(tokenRecommendations, perf, metrics)
        total(score) == SumOf([i \in 1..Len(recommenderData) |-> recommenderData[i][score]])
        length == Len(tokenRecommendations)
    IN  [tokenAddress |-> tokenAddress,
         averageTrustScore |-> Average(total("trustScore"), length),
         averageRiskScore |-> Average(total("riskScore"), length),
         averageConsistencyScore |->
             Average(total("consistencyScore"), length),
         recommenders |-> recommenderData]

\* results.sort((a, b) => b.averageTrustScore - a.averageTrustScore), a stable
\* sort: a summary goes behind those whose average is not smaller
RECURSIVE InsertSummary(_, _)
InsertSummary(sorted, summary) ==
    IF sorted = <<>> THEN <<summary>>
    ELSE IF AverageLess(Head(sorted).averageTrustScore, summary.averageTrustScore)
    THEN <<summary>> \o sorted
    ELSE <<Head(sorted)>> \o InsertSummary(Tail(sorted), summary)

RECURSIVE SortSummaries(_)
SortSummaries(results) ==
    IF results = <<>> THEN <<>>
    ELSE InsertSummary(SortSummaries(SubSeq(results, 1, Len(results) - 1)),
                       results[Len(results)])

\* getRecommendations is not in use
RecsIdle ==
    /\ grPc = "idle"
    /\ grRecs = <<>>
    /\ grPerf = [tok \in Tokens |-> <<>>]
    /\ grMetrics = [rec \in RecIds |-> <<>>]
    /\ grResults = <<>>

\* any recommendations in the range, any rows behind them
RecsInit ==
    /\ grPc = "idle"
    /\ grRecs \in RecommendationLists
    /\ grPerf \in [Tokens -> {<<>>} \cup { <<tp>> : tp \in RecommendedPerformances }]
    /\ grMetrics \in [RecIds -> {<<>>} \cup { <<m>> : m \in RecommenderMetricsRows }]
    /\ grResults = <<>>

\* getRecommendations is called and awaits getRecommendationsByDateRange
RecsCall ==
    /\ grPc = "idle"
    /\ grPc' = "range"
    /\ UNCHANGED <<grRecs, grPerf, grMetrics, grResults>>

\* getRecommendationsByDateRange resolves: the rows are grouped by token
RecsRange ==
    /\ grPc = "range"
    /\ grPc' = IF GroupKeys(grRecs) = <<>> THEN "sort" ELSE "token"
    /\ UNCHANGED <<grRecs, grPerf, grMetrics, grResults>>

\* one pass of the outer loop: the recommendations of the next token are
\* scored and its summary is pushed
RecsToken ==
    /\ grPc = "token"
    /\ LET keys == GroupKeys(grRecs)
           tokenAddress == keys[Len(grResults) + 1]
       IN  /\ grResults' = Append(grResults,
                                  SummaryOf(tokenAddress, GroupOf(grRecs, tokenAddress),
                                            grPerf, grMetrics))
           /\ grPc' = IF Len(grResults) + 1 = Len(keys) THEN "sort" ELSE "token"
    /\ UNCHANGED <<grRecs, grPerf, grMetrics>>

\* results.sort(...) and the return
RecsSort ==
    /\ grPc = "sort"
    /\ grResults' = SortSummaries(grResults)
    /\ grPc' = "done"
    /\ UNCHANGED <<grRecs, grPerf, grMetrics>>

NextRecs ==
    \/ RecsCall /\ UNCHANGED <<httpVars, cacheVars, metricsVars, sellVars, holderVars, flagVars, scoreVars, pairVars, portVars, reportVars>>
    \/ RecsRange /\ UNCHANGED <<httpVars, cacheVars, metricsVars, sellVars, holderVars, flagVars, scoreVars, pairVars, portVars, reportVars>>
    \/ RecsToken /\ UNCHANGED <<httpVars, cacheVars, metricsVars, sellVars, holderVars, flagVars, scoreVars, pairVars, portVars, reportVars>>
    \/ RecsSort /\ UNCHANGED <<httpVars, cacheVars, metricsVars, sellVars, holderVars, flagVars, scoreVars, pairVars, portVars, reportVars>>

\* the parts of the contract of getRecommendations, one by one
RecsOneSummaryPerToken ==
    grPc = "done" =>
        \A tok \in Tokens :
            Cardinality({ i \in 1..Len(grResults) : grResults[i].tokenAddress = tok })
                = IF \E j \in 1..Len(grRecs) : grRecs[j].tokenAddress = tok
                  THEN 1 ELSE 0

RecsAveragesAreMeansOfListed ==
    grPc = "done" =>
        \A i \in 1..Len(grResults) :
            LET summary == grResults[i]
                listed == summary.recommenders
                n == Len(listed)
                mean(average, score) ==
                    average.total * n
                        = SumOf([k \in 1..n |-> listed[k][score]]) * average.count
            IN  n > 0 =>
                  /\ mean(summary.averageTrustScore, "trustScore")
                  /\ mean(summary.averageRiskScore, "riskScore")
                  /\ mean(summary.averageConsistencyScore, "consistencyScore")

RecsSortedByAverageTrust ==
    grPc = "done" =>
        \A i \in 1..(Len(grResults) - 1) :
            ~AverageLess(grResults[i].averageTrustScore,
                         grResults[i + 1].averageTrustScore)

\* C31: getRecommendations returns exactly one summary per distinct token
\* address among the recommendations in the range, each summary's average
\* trust, risk and consistency scores are the means of the scores of the
\* recommenders listed in it, and the summaries are in the order of
\* non-increasing average trust score.
C31_SummariesAverageListedRecommenders ==
    /\ RecsOneSummaryPerToken
    /\ RecsAveragesAreMeansOfListed
    /\ RecsSortedByAverageTrust

(***************************************************************************)
(*          BirdeyeClient.fetchPortfolioValue, CodexClient.fetchPortfolioValue *)
(* Birdeye's numbers are in cents of a dollar.  Codex's balances are whole *)
(* tokens and its prices thousandths of a dollar.  A string made by        *)
(* toFixed(d) is the integer of its digits: the value times 10^d.          *)
(***************************************************************************)

\* items of one wallet in the model
MaxPortfolioItems == 2

PortfolioClients == {"birdeye", "codex"}

\* BigNumber's ROUND_HALF_UP of a / b, for a >= 0 and b > 0
RoundHalfUp(a, b) == (2 * a + b) \div (2 * b)

\* WalletTokenList of Birdeye: totalUsd and the items' valueUsd, in cents
BirdeyeTokenLists ==
    [totalUsd : {0, 100, 300},
     items : UNION { [1..n -> [address : {"a1", "a2"}, valueUsd : {0, 100, 200}]] :
                       n \in 0..MaxPortfolioItems }]

\* the price of SOL from Birdeye, in cents
BirdeyeSolPrices == {100, 300}

\* balances.items of Codex, each with the priceUsd that fetchPrices returns
\* for its token, in thousandths of a dollar
CodexBalances ==
    UNION { [1..n -> [address : {"a1", "a2"}, balance : {1, 3}, priceUsd : {4, 15}]] :
              n \in 0..MaxPortfolioItems }

\* the priceUsd of SOL from Codex, in thousandths of a dollar
CodexSolPrices == {500, 2000}

\* the sort of both clients with the comparator turned around
InsertItemAscending(sorted, item) ==
    LET before == { i \in 1..Len(sorted) : sorted[i].valueUsd <= item.valueUsd }
        k == IF before = {} THEN 0 ELSE CHOOSE i \in before : \A j \in before : j <= i
    IN  SubSeq(sorted, 1, k) \o <<item>> \o SubSeq(sorted, k + 1, Len(sorted))

\* items.sort((a, b) => b.valueUsd - a.valueUsd), a stable sort: an item goes
\* behind the last one whose valueUsd is not smaller
InsertItem(sorted, item) ==
    LET before == { i \in 1..Len(sorted) : sorted[i].valueUsd >= item.valueUsd }
        k == IF before = {} THEN 0 ELSE CHOOSE i \in before : \A j \in before : j <= i
    IN  SubSeq(sorted, 1, k) \o <<item>> \o SubSeq(sorted, k + 1, Len(sorted))

RECURSIVE SortItems(_)
SortItems(items) ==
    IF items = <<>> THEN <<>>
    ELSE InsertItem(SortItems(SubSeq(items, 1, Len(items) - 1)), items[Len(items)])

\* the portfolio of BirdeyeClient: valueUsd as given, valueSol and totalSol
\* with six decimals, totalUsd as the token list gives it
BirdeyePortfolio(tokenList, solPriceInUSD) ==
    [kind |-> "returned",
     totalUsd |-> tokenList.totalUsd,
     totalSol |-> RoundHalfUp(tokenList.totalUsd * 1000000, solPriceInUSD),
     items |-> SortItems([i \in 1..Len(tokenList.items) |->
                  [address |-> tokenList.items[i].address,
                   valueUsd |-> tokenList.items[i].valueUsd,
                   valueSol |-> RoundHalfUp(tokenList.items[i].valueUsd * 1000000,
                                            solPriceInUSD)]])]

\* the items of CodexClient: valueUsd = balance * priceUsd with two decimals,
\* valueSol = that product, not rounded, over solPrice, with two decimals
CodexItems(data, solPrice) ==
    [i \in 1..Len(data) |->
        LET valueUsd == data[i].balance * data[i].priceUsd
        IN  [address |-> data[i].address,
             valueUsd |-> RoundHalfUp(valueUsd, 10),
             valueSol |-> RoundHalfUp(valueUsd * 100, solPrice)]]

\* the portfolio of CodexClient: totalUsd is the sum of the items' valueUsd,
\* printed with six decimals as totalSol is
CodexPortfolio(data, solPrice) ==
    LET items == CodexItems(data, solPrice)
        totalUsd == SumOf([i \in 1..Len(items) |-> items[i].valueUsd])
    IN  [kind |-> "returned",
         totalUsd |-> totalUsd * 10000,
         totalSol |-> RoundHalfUp(totalUsd * 10 * 1000000, solPrice),
         items |-> SortItems(items)]

\* { totalUsd: "0", totalSol: "0", items: [] }
EmptyPortfolio == [kind |-> "returned", totalUsd |-> 0, totalSol |-> 0, items |-> <<>>]

NoPortfolio == [kind |-> "none", totalUsd |-> 0, totalSol |-> 0, items |-> <<>>]

\* the catch logs and throws the error again
PortfolioThrew == [kind |-> "threw", totalUsd |-> 0, totalSol |-> 0, items |-> <<>>]

NoPortfolioData == [totalUsd |-> 0, items |-> <<>>]

PortfolioIdle ==
    /\ pfPc = "idle"
    /\ pfClient = "birdeye"
    /\ pfData = NoPortfolioData
    /\ pfPrice = 0
    /\ pfOut = NoPortfolio

\* fetchPortfolioValue is called: the token list or the balances are requested
PortfolioCall(client) ==
    /\ pfPc = "idle"
    /\ pfPc' = "list"
    /\ pfClient' = client
    /\ UNCHANGED <<pfData, pfPrice, pfOut>>

\* fetchWalletTokenList resolves and fetchPrice(SOL_ADDRESS) is awaited
PortfolioTokenList(tokenList) ==
    /\ pfPc = "list"
    /\ pfClient = "birdeye"
    /\ pfData' = tokenList
    /\ pfPc' = "price"
    /\ UNCHANGED <<pfClient, pfPrice, pfOut>>

\* the balances request resolves: without items the empty portfolio is
\* returned, else fetchPrices is awaited
PortfolioBalances(data) ==
    /\ pfPc = "list"
    /\ pfClient = "codex"
    /\ pfData' = [totalUsd |-> 0, items |-> data]
    /\ IF data = <<>>
       THEN pfPc' = "done" /\ pfOut' = EmptyPortfolio
       ELSE pfPc' = "price" /\ pfOut' = pfOut
    /\ UNCHANGED <<pfClient, pfPrice>>

\* the price request resolves: the portfolio is built and returned
PortfolioPrice(price) ==
    /\ pfPc = "price"
    /\ pfPrice' = price
    /\ pfOut' = IF pfClient = "birdeye" THEN BirdeyePortfolio(pfData, price)
                ELSE CodexPortfolio(pfData.items, price)
    /\ pfPc' = "done"
    /\ UNCHANGED <<pfClient, pfData>>

\* either request rejects: the error is thrown again
PortfolioFail ==
    /\ pfPc \in {"list", "price"}
    /\ pfPc' = "done"
    /\ pfOut' = PortfolioThrew
    /\ UNCHANGED <<pfClient, pfData, pfPrice>>

NextPortfolio ==
    \/ \E client \in PortfolioClients : PortfolioCall(client) /\ UNCHANGED <<httpVars, cacheVars, metricsVars, sellVars, holderVars, flagVars, scoreVars, pairVars, recsVars, reportVars>>
    \/ \E tokenList \in BirdeyeTokenLists : PortfolioTokenList(tokenList) /\ UNCHANGED <<httpVars, cacheVars, metricsVars, sellVars, holderVars, flagVars, scoreVars, pairVars, recsVars, reportVars>>
    \/ \E data \in CodexBalances : PortfolioBalances(data) /\ UNCHANGED <<httpVars, cacheVars, metricsVars, sellVars, holderVars, flagVars, scoreVars, pairVars, recsVars, reportVars>>
    \/ \E price \in BirdeyeSolPrices \cup CodexSolPrices :
          /\ price \in (IF pfClient = "birdeye" THEN BirdeyeSolPrices ELSE CodexSolPrices)
          /\ PortfolioPrice(price)
          /\ UNCHANGED <<httpVars, cacheVars, metricsVars, sellVars, holderVars, flagVars, scoreVars, pairVars, recsVars, reportVars>>
    \/ PortfolioFail /\ UNCHANGED <<httpVars, cacheVars, metricsVars, sellVars, holderVars, flagVars, scoreVars, pairVars, recsVars, reportVars>>

\* the items of a returned portfolio are in the order of non-increasing
\* valueUsd
PortfolioSorted ==
    \A i \in 1..(Len(pfOut.items) - 1) :
        pfOut.items[i].valueUsd >= pfOut.items[i + 1].valueUsd

MaxReportCalls == 2

ReportOps == {"getFormattedPortfolio", "walletProvider.get",
              "getFormattedTokenReport", "tokenProvider.get"}

PortfolioOps == {"getFormattedPortfolio", "walletProvider.get"}

WalletFallback == "Unable to fetch wallet information. Please try again later."
TokenFallback == "Unable to fetch token information. Please try again later."

\* the string the catch of the report's function returns
FallbackOf(op) == IF op \in PortfolioOps THEN WalletFallback ELSE TokenFallback

\* a catch that returns the fallback string of the report
ProviderCatchFallback(op) == [kind |-> "string", text |-> FallbackOf(op)]

\* the catch of the provider's get: walletProvider.get returns null,
\* tokenProvider.get the fallback string
ProviderCatch(op) ==
    IF op = "walletProvider.get" THEN [kind |-> "null", text |-> ""]
    ELSE [kind |-> "string", text |-> FallbackOf(op)]

\* the fetches a report awaits: Promise.all of fetchPortfolioValue and
\* fetchPrices, or getProcessedTokenData
FetchesOf(op) ==
    IF op \in PortfolioOps THEN {"fetchPortfolioValue", "fetchPrices"}
    ELSE {"getProcessedTokenData"}

NoReport == [kind |-> "none", text |-> ""]

ReportIdle ==
    /\ rpPc = "idle"
    /\ rpOp = "getFormattedPortfolio"
    /\ rpPending = {}
    /\ rpFailure = "none"
    /\ rpOut = NoReport
    /\ rpLog = <<>>

\* the try of getFormattedPortfolio or getFormattedTokenReport is entered
EnterReport(op) == IF op \in PortfolioOps THEN "adapter" ELSE "fetch"

\* a report operation is called.  walletProvider.get first constructs the
\* WalletProvider; tokenProvider.get's constructor only stores its arguments
ReportCall(op) ==
    /\ rpPc \in {"idle", "done"}
    /\ Len(rpLog) + (IF rpPc = "done" THEN 1 ELSE 0) < MaxReportCalls
    /\ rpLog' = IF rpPc = "done" THEN Append(rpLog, [op |-> rpOp, out |-> rpOut])
                ELSE rpLog
    /\ rpOp' = op
    /\ rpPc' = IF op = "walletProvider.get" THEN "construct" ELSE EnterReport(op)
    /\ rpPending' = FetchesOf(op)
    /\ rpFailure' = "none"
    /\ rpOut' = NoReport

\* WalletProvider.createFromRuntime returns, or throws (SOLANA_PUBLIC_KEY is
\* missing or no public key): the catch of walletProvider.get
ReportConstruct(ok) ==
    /\ rpPc = "construct"
    /\ IF ok
       THEN /\ rpPc' = EnterReport(rpOp)
            /\ UNCHANGED <<rpFailure, rpOut>>
       ELSE /\ rpPc' = "done"
            /\ rpFailure' = "construct"
            /\ rpOut' = ProviderCatch(rpOp)
    /\ UNCHANGED <<rpOp, rpPending, rpLog>>

\* BirdeyeClient.createFromRuntime returns inside getFormattedPortfolio's
\* try, or throws (BIRDEYE_API_KEY is missing): the catch of the report
ReportAdapter(ok) ==
    /\ rpPc = "adapter"
    /\ IF ok
       THEN /\ rpPc' = "fetch"
            /\ UNCHANGED <<rpFailure, rpOut>>
       ELSE /\ rpPc' = "done"
            /\ rpFailure' = "adapter"
            /\ rpOut' = ProviderCatchFallback(rpOp)
    /\ UNCHANGED <<rpOp, rpPending, rpLog>>

\* one awaited fetch resolves: when it was the last, the data is formatted
\* and the report returned, or the formatting throws
ReportFetchOk(fetch, formats) ==
    /\ rpPc = "fetch"
    /\ fetch \in rpPending
    /\ rpPending' = rpPending \ {fetch}
    /\ IF rpPending' # {}
       THEN UNCHANGED <<rpPc, rpFailure, rpOut>>
       ELSE /\ rpPc' = "done"
            /\ rpFailure' = IF formats THEN "none" ELSE "format"
            /\ rpOut' = IF formats THEN [kind |-> "string", text |-> "report"]
                        ELSE ProviderCatchFallback(rpOp)
    /\ UNCHANGED <<rpOp, rpLog>>

\* one awaited fetch rejects: the catch of the report
ReportFetchFail(fetch) ==
    /\ rpPc = "fetch"
    /\ fetch \in rpPending
    /\ rpPending' = rpPending \ {fetch}
    /\ rpPc' = "done"
    /\ rpFailure' = "fetch"
    /\ rpOut' = ProviderCatchFallback(rpOp)
    /\ UNCHANGED <<rpOp, rpLog>>

NextReport ==
    \/ \E op \in ReportOps : ReportCall(op) /\ UNCHANGED <<httpVars, cacheVars, metricsVars, sellVars, holderVars, flagVars, scoreVars, pairVars, recsVars, portVars>>
    \/ \E ok \in BOOLEAN : ReportConstruct(ok) /\ UNCHANGED <<httpVars, cacheVars, metricsVars, sellVars, holderVars, flagVars, scoreVars, pairVars, recsVars, portVars>>
    \/ \E ok \in BOOLEAN : ReportAdapter(ok) /\ UNCHANGED <<httpVars, cacheVars, metricsVars, sellVars, holderVars, flagVars, scoreVars, pairVars, recsVars, portVars>>
    \/ \E fetch \in {"fetchPortfolioValue", "fetchPrices", "getProcessedTokenData"}, formats \in BOOLEAN :
          ReportFetchOk(fetch, formats) /\ UNCHANGED <<httpVars, cacheVars, metricsVars, sellVars, holderVars, flagVars, scoreVars, pairVars, recsVars, portVars>>
    \/ \E fetch \in {"fetchPortfolioValue", "fetchPrices", "getProcessedTokenData"} :
          ReportFetchFail(fetch) /\ UNCHANGED <<httpVars, cacheVars, metricsVars, sellVars, holderVars, flagVars, scoreVars, pairVars, recsVars, portVars>>

\* C33: the formatted report operations never propagate an internal error:
\* whenever a fetch or the construction of an adapter or provider failed,
\* getFormattedPortfolio, walletProvider.get, getFormattedTokenReport and
\* tokenProvider.get return the fixed fallback string of their report.
C33_ReportsReturnFallbackString ==
    rpPc = "done" =>
        /\ rpOut.kind # "threw"
        /\ rpFailure # "none" => rpOut = [kind |-> "string", text |-> FallbackOf(rpOp)]

InitHttp == HttpInit /\ CacheInit /\ MetricsIdle /\ SellIdle /\ HolderInit /\ FlagsIdle /\ ScoreIdle /\ PairsIdle /\ RecsIdle /\ PortfolioIdle /\ ReportIdle

InitCache == HttpInit /\ CacheInit /\ MetricsIdle /\ SellIdle /\ HolderInit /\ FlagsIdle /\ ScoreIdle /\ PairsIdle /\ RecsIdle /\ PortfolioIdle /\ ReportIdle

InitMetrics == HttpInit /\ CacheInit /\ MetricsInit /\ SellIdle /\ HolderInit /\ FlagsIdle /\ ScoreIdle /\ PairsIdle /\ RecsIdle /\ PortfolioIdle /\ ReportIdle

InitSell == HttpInit /\ CacheInit /\ MetricsIdle /\ SellInit /\ HolderInit /\ FlagsIdle /\ ScoreIdle /\ PairsIdle /\ RecsIdle /\ PortfolioIdle /\ ReportIdle

InitHolders == HttpInit /\ CacheInit /\ MetricsIdle /\ SellIdle /\ HolderInit /\ FlagsIdle /\ ScoreIdle /\ PairsIdle /\ RecsIdle /\ PortfolioIdle /\ ReportIdle

InitFlags == HttpInit /\ CacheInit /\ MetricsIdle /\ SellIdle /\ HolderInit /\ FlagsInit /\ ScoreIdle /\ PairsIdle /\ RecsIdle /\ PortfolioIdle /\ ReportIdle

SpecHttp == InitHttp /\ [][NextHttp]_vars

SpecCache == InitCache /\ [][NextCache]_vars

SpecMetrics == InitMetrics /\ [][NextMetrics]_vars

SpecSell == InitSell /\ [][NextSell]_vars

SpecTrade == InitSell /\ [][NextTrade]_vars

SpecHolders == InitHolders /\ [][NextHolders]_vars
\* a suspended call is resumed: each awaited cache or http call settles
SpecHoldersFair ==
    /\ InitHolders
    /\ [][NextHolders]_vars
    /\ WF_vars(HolderResume /\ UNCHANGED <<httpVars, cacheVars, metricsVars, sellVars, flagVars, scoreVars, pairVars, recsVars, portVars, reportVars>>)

SpecFlags == InitFlags /\ [][NextFlags]_vars

InitScore == HttpInit /\ CacheInit /\ MetricsIdle /\ SellIdle /\ HolderInit /\ FlagsIdle /\ ScoreInit /\ PairsIdle /\ RecsIdle /\ PortfolioIdle /\ ReportIdle

SpecScore == InitScore /\ [][NextScore]_vars

SpecPairs == InitHttp /\ [][NextPairs]_vars

InitRecs == HttpInit /\ CacheInit /\ MetricsIdle /\ SellIdle /\ HolderInit /\ FlagsIdle /\ ScoreIdle /\ PairsIdle /\ RecsInit /\ PortfolioIdle /\ ReportIdle

SpecRecs == InitRecs /\ [][NextRecs]_vars

SpecPortfolio == InitHttp /\ [][NextPortfolio]_vars

SpecReport == InitHttp /\ [][NextReport]_vars

====
